---- MODULE Spec2Model ----
(***************************************************************************)
(* Model of the slice-aware flow control and SLA evaluation engine:        *)
(*   src/slice_manager.py            SliceManager (registry, check_sla,    *)
(*                                   severity, violation ledger)           *)
(*   src/controller.py               SlicingController (switch connect,    *)
(*                                   packet-in, stats reply, bandwidth)    *)
(*   src/monitoring/metrics_collector.py  MetricsCollector (flow metrics)  *)
(*   src/orchestrator.py             MetricsCollector (sample history and  *)
(*                                   its summary)                          *)
(*                                                                         *)
(* Numbers.  The program computes with Python floats.  Here every metric   *)
(* and threshold is an integer number of thousandths (5.0 Mbps = 5000,     *)
(* 0.001 % = 1), byte counts are integers and wall-clock times are integer *)
(* milliseconds.  A ratio test  a / e >= p / q  is decided exactly, by     *)
(* cross multiplication; round(x, 3) is rounding to the nearest thousandth *)
(* with ties to even.  The timestamp fields (utcnow) are left out.         *)
(***************************************************************************)
EXTENDS Integers, Sequences, FiniteSets, TLC

VARIABLES
    \* ---- SliceManager (src/slice_manager.py) ----
    slices,            \* self.slices: name -> SliceConfig
    violations,        \* self.violations: the ledger, a list of SLAViolation
    violation_counts,  \* self.violation_counts: name -> int
    sla_in,            \* arguments of the latest operation, when it was check_sla
    sla_out,           \* value it returned, when the latest operation was check_sla
    summary,           \* value returned, when the latest operation was get_violation_summary
    sm_ops,            \* the last two SliceManager operations, latest last
    sm_pre,            \* the manager's state before each of these operations
    threads,           \* calls on the manager that are under way in threads: position
                       \* and local variables of each
    lookup,            \* query and value returned, when the latest operation was get_slice_by_port
    \* ---- SliceManager._get_severity applied to drawn inputs ----
    sev_in,            \* [expected, actual, actual2, requirement_type]
    sev_out,           \* <<severity for actual, severity for actual2>>, or <<>>
    \* ---- SlicingController (src/controller.py) ----
    datapaths,         \* self.datapaths: the registered datapath ids
    sent,              \* per datapath, the messages its switch-features events pushed
                       \* with datapath.send_msg
    connects,          \* per datapath, the number of switch-features events handled
    prev_stats,        \* self.prev_stats: {} or slice -> [bytes, packets]
    prev_time,         \* self.prev_time (ms)
    metrics,           \* self.metrics: slice -> [bytes, packets, bandwidth_mbps]
    exported,          \* the records the latest _export_metrics call appended to its file
    reply,             \* the latest stats reply handled: datapath, time, per-slice sums,
                       \* that datapath's reply before it, prev_stats and time_delta used
    samples,           \* per datapath, its latest reply (time and per-slice sums)
    mac_to_port,       \* self.mac_to_port: dpid -> (MAC address -> port)
    pkt_in,            \* the latest packet-in handled, with mac_to_port as it was before
    pkt_out,           \* the messages the latest packet-in pushed with datapath.send_msg
    monitor_pc,        \* where self.monitor_thread stands in _monitor_loop: "request"
                       \* (about to run the for loop), "sleep" (in hub.sleep), "dead"
    poll,              \* the latest cycle of _monitor_loop: the datapaths it iterated,
                       \* the live switches then, the requests it sent, whether it raised
    stats_requests,    \* per datapath, the OFPFlowStatsRequests sent and not yet answered
    live,              \* the switches whose connection to the controller is up
    shutdown,          \* whether the controller process has been told to stop
    handler,           \* the stats-reply handler that is under way: position and locals
    observed,          \* what the latest reader of the controller's state saw
    \* ---- MetricsCollector (src/monitoring/metrics_collector.py) ----
    flow_metrics,      \* self.flow_metrics: list of FlowMetric
    prev_flow_stats,   \* self.prev_flow_stats: slice -> [bytes, packets]
    mc_prev_time,      \* self.prev_time (ms)
    mc_poll,           \* the latest poll of the controller REST API
    flow_file,         \* the lines of the collector's flow_metrics.json, oldest first
    mc_sla,            \* arguments and value of the latest call of the collector's _check_sla
    collector,         \* self.running and the collection threads of the collector
    \* ---- orchestrator MetricsCollector (src/orchestrator.py) ----
    metrics_history,   \* self.metrics_history: slice -> list of SliceMetrics
    metrics_summary,   \* value returned, when the latest operation was get_metrics_summary
    experiment         \* ExperimentRunner: self.running, the position of start_experiment
                       \* in its slices, whether experiment_results was written, and the
                       \* samples (and violated samples) the current run has aggregated

smVars  == <<slices, violations, violation_counts, sla_in, sla_out, summary, sm_ops, sm_pre,
            lookup, threads>>
sevVars == <<sev_in, sev_out>>
ctlVars == <<datapaths, sent, connects, prev_stats, prev_time, metrics, exported, reply, samples,
            mac_to_port, pkt_in, pkt_out, monitor_pc, poll, stats_requests, live, shutdown,
            handler, observed>>
pollVars == <<monitor_pc, poll, stats_requests, live, shutdown>>
rdVars  == <<handler, observed>>
mcVars  == <<flow_metrics, prev_flow_stats, mc_prev_time, mc_poll, flow_file, mc_sla,
            collector>>
orVars  == <<metrics_history, metrics_summary, experiment>>
vars    == <<smVars, sevVars, ctlVars, mcVars, orVars>>

(***************************************************************************)
(* Bounds of the model.                                                    *)
(***************************************************************************)
MaxLedger == 4      \* the ledger is explored up to this many violations
MaxExpected == 10   \* _get_severity: expected drawn from 0..MaxExpected
MaxActual == 25     \* _get_severity: actual drawn from 0..MaxActual
MaxConnects == 4    \* switch-features events handled per datapath
MaxFlowMetrics == 3 \* the collector's flow_metrics list is explored up to this length
MaxExportFile == 6  \* the collector's export file is explored up to this many lines
MaxOutstanding == 2 \* unanswered stats requests are counted up to this many per datapath
MaxPollConnects == 2 \* switch-features events per datapath while the poller is explored
MaxHistory == 3     \* samples kept per slice in the orchestrator's metrics_history

\* the value of a variable that holds nothing yet (None, an empty dict)
NoValue == <<>>

IsSet(x) == DOMAIN x # {}

Max(a, b) == IF a >= b THEN a ELSE b

(***************************************************************************)
(* Slice registry and SLA thresholds, in thousandths.                      *)
(***************************************************************************)
SliceNames == {"URLLC", "eMBB", "mMTC"}

\* dict iteration order of self.slices / SLICE_CONFIG (insertion order)
SliceOrder == <<"URLLC", "eMBB", "mMTC">>

DEFAULT_SLAS ==
    [URLLC |-> [min_bandwidth_mbps |-> 5000, max_latency_ms |-> 5000,
                max_jitter_ms |-> 1000, max_packet_loss_pct |-> 1],
     eMBB  |-> [min_bandwidth_mbps |-> 50000, max_latency_ms |-> 20000,
                max_jitter_ms |-> 5000, max_packet_loss_pct |-> 1000],
     mMTC  |-> [min_bandwidth_mbps |-> 1000, max_latency_ms |-> 100000,
                max_jitter_ms |-> 20000, max_packet_loss_pct |-> 1000]]

DefaultSlices ==
    [URLLC |-> [name |-> "URLLC", port |-> 5001, dscp |-> 46, priority |-> 100,
                sla |-> DEFAULT_SLAS["URLLC"]],
     eMBB  |-> [name |-> "eMBB", port |-> 5002, dscp |-> 34, priority |-> 50,
                sla |-> DEFAULT_SLAS["eMBB"]],
     mMTC  |-> [name |-> "mMTC", port |-> 5003, dscp |-> 10, priority |-> 10,
                sla |-> DEFAULT_SLAS["mMTC"]]]

ZeroCounts == [n \in SliceNames |-> 0]

\* the four SLA dimensions, in the order check_sla evaluates them
Dimensions == <<"bandwidth", "latency", "jitter", "packet_loss">>

MetricKey(dim) ==
    CASE dim = "bandwidth"   -> "bandwidth_mbps"
      [] dim = "latency"     -> "latency_ms"
      [] dim = "jitter"      -> "jitter_ms"
      [] dim = "packet_loss" -> "packet_loss_pct"

MetricKeys == {MetricKey(Dimensions[i]) : i \in 1..4}

\* the threshold of a dimension in an SLARequirements record
Threshold(sla, dim) ==
    CASE dim = "bandwidth"   -> sla.min_bandwidth_mbps
      [] dim = "latency"     -> sla.max_latency_ms
      [] dim = "jitter"      -> sla.max_jitter_ms
      [] dim = "packet_loss" -> sla.max_packet_loss_pct

\* 'min' for the bandwidth floor, 'max' for the three ceilings
RequirementType(dim) == IF dim = "bandwidth" THEN "min" ELSE "max"

\* metrics.get(key, 0)
MetricGet(m, key) == IF key \in DOMAIN m THEN m[key] ELSE 0

(***************************************************************************)
(* SliceManager._get_severity                                              *)
(***************************************************************************)
\* actual / expected >= p / q, for expected # 0
RatioGE(actual, expected, p, q) ==
    IF expected > 0 THEN actual * q >= p * expected
                    ELSE actual * q <= p * expected

\* actual / expected <= p / q, for expected # 0
RatioLE(actual, expected, p, q) ==
    IF expected > 0 THEN actual * q <= p * expected
                    ELSE actual * q >= p * expected

\* mutant: the last two branches of the 'max' case are exchanged
GetSeverity_Swapped(expected, actual, requirement_type) ==
    IF expected = 0 THEN "critical"
    ELSE IF requirement_type = "min"
         THEN IF RatioGE(actual, expected, 8, 10) THEN "minor"
              ELSE IF RatioGE(actual, expected, 5, 10) THEN "major"
              ELSE "critical"
         ELSE IF RatioLE(actual, expected, 12, 10) THEN "minor"
              ELSE IF RatioLE(actual, expected, 20, 10) THEN "critical"
              ELSE "major"

\* mutant: the boundaries are exclusive (>, < in place of >=, <=) and expected == 0
\* falls through to 'minor'
GetSeverity_Strict(expected, actual, requirement_type) ==
    IF expected = 0 THEN "minor"
    ELSE IF requirement_type = "min"
         THEN IF ~RatioLE(actual, expected, 8, 10) THEN "minor"
              ELSE IF ~RatioLE(actual, expected, 5, 10) THEN "major"
              ELSE "critical"
         ELSE IF ~RatioGE(actual, expected, 12, 10) THEN "minor"
              ELSE IF ~RatioGE(actual, expected, 20, 10) THEN "major"
              ELSE "critical"

GetSeverity(expected, actual, requirement_type) ==
    IF expected = 0 THEN "critical"
    ELSE IF requirement_type = "min"
         THEN IF RatioGE(actual, expected, 8, 10) THEN "minor"
              ELSE IF RatioGE(actual, expected, 5, 10) THEN "major"
              ELSE "critical"
         ELSE IF RatioLE(actual, expected, 12, 10) THEN "minor"
              ELSE IF RatioLE(actual, expected, 20, 10) THEN "major"
              ELSE "critical"

(***************************************************************************)
(* SliceManager.check_sla                                                  *)
(***************************************************************************)
\* mutant: the bandwidth floor is tested like the three ceilings
Breached_CeilingsOnly(dim, actual, expected) == actual > expected

\* the condition under which check_sla records a violation of a dimension
Breached(dim, actual, expected) ==
    IF RequirementType(dim) = "min" THEN actual < expected ELSE actual > expected

\* mutant: 'compliant' of the ceilings is computed with < instead of <=
DimCompliant_Strict(dim, actual, expected) ==
    IF RequirementType(dim) = "min" THEN actual >= expected ELSE actual < expected

\* the 'compliant' flag check_sla puts in details[dim]
DimCompliant(dim, actual, expected) ==
    IF RequirementType(dim) = "min" THEN actual >= expected ELSE actual <= expected

\* the SLAViolation built for a breached dimension
MkViolation(slice_name, dim, expected, actual) ==
    [slice_name |-> slice_name, violation_type |-> dim,
     expected_value |-> expected, actual_value |-> actual,
     severity |-> GetSeverity(expected, actual, RequirementType(dim))]

RECURSIVE ViolationsFrom(_, _, _, _)
\* the violations list built by the four checks from the i-th on, in order
ViolationsFrom(i, slice_name, sla, m) ==
    IF i > Len(Dimensions) THEN <<>>
    ELSE LET dim    == Dimensions[i]
             actual == MetricGet(m, MetricKey(dim))
             rest   == ViolationsFrom(i + 1, slice_name, sla, m)
         IN  IF Breached(dim, actual, Threshold(sla, dim))
             THEN <<MkViolation(slice_name, dim, Threshold(sla, dim), actual)>> \o rest
             ELSE rest

\* mutant: the packet-loss check is skipped
ViolationsOf_NoLoss(slice_name, sla, m) ==
    SelectSeq(ViolationsFrom(1, slice_name, sla, m),
              LAMBDA v : v.violation_type # "packet_loss")

ViolationsOf(slice_name, sla, m) == ViolationsFrom(1, slice_name, sla, m)

DetailsOf(sla, m) ==
    [d \in {Dimensions[i] : i \in 1..4} |->
        [required  |-> Threshold(sla, d),
         actual    |-> MetricGet(m, MetricKey(d)),
         compliant |-> DimCompliant(d, MetricGet(m, MetricKey(d)), Threshold(sla, d))]]

\* mutant: an unknown slice is reported compliant
UnknownResult_Compliant(slice_name) ==
    [status |-> "compliant", violations |-> <<>>, details |-> [error |-> slice_name]]

\* the early return for a slice name that is not in self.slices
UnknownResult(slice_name) ==
    [status |-> "unknown", violations |-> <<>>, details |-> [error |-> slice_name]]

StatusOf(vs) == IF vs = <<>> THEN "compliant" ELSE "violated"

\* the value check_sla returns
CheckSlaResult(reg, slice_name, m) ==
    IF slice_name \notin DOMAIN reg THEN UnknownResult(slice_name)
    ELSE LET vs == ViolationsOf(slice_name, reg[slice_name].sla, m)
         IN  [status |-> StatusOf(vs), violations |-> vs,
              details |-> DetailsOf(reg[slice_name].sla, m)]

\* mutant: the counter is increased by one per violating call
CountsAfter_PlusOne(counts, slice_name, vs) ==
    IF vs = <<>> THEN counts
    ELSE [counts EXCEPT ![slice_name] = @ + 1]

\* self.violation_counts[slice_name] += len(violations), when there are violations
CountsAfter(counts, slice_name, vs) ==
    IF vs = <<>> THEN counts
    ELSE [counts EXCEPT ![slice_name] = @ + Len(vs)]

\* self.violations.extend(violations)
LedgerAfter(ledger, vs) == ledger \o vs

Snapshot == [violations |-> violations, violation_counts |-> violation_counts,
             slices |-> slices]

\* the last entry of a history of at most two, followed by x
Push(hist, x) == IF hist = <<>> THEN <<x>> ELSE <<hist[Len(hist)], x>>

\* one call of check_sla(slice_name, m)
CheckSla(slice_name, m) ==
    LET r == CheckSlaResult(slices, slice_name, m)
    IN  /\ Len(violations) + Len(r.violations) <= MaxLedger
        /\ sla_in' = [slice_name |-> slice_name, metrics |-> m]
        /\ sla_out' = r
        /\ violations' = LedgerAfter(violations, r.violations)
        /\ violation_counts' =
              IF slice_name \in DOMAIN slices
              THEN CountsAfter(violation_counts, slice_name, r.violations)
              ELSE violation_counts
        /\ summary' = NoValue
        /\ lookup' = NoValue
        /\ sm_pre' = Push(sm_pre, Snapshot)
        /\ sm_ops' = Push(sm_ops, "check_sla")
        /\ UNCHANGED <<slices, threads>>

(***************************************************************************)
(* SliceManager.get_violation_summary and clear_violations                 *)
(***************************************************************************)

\* mutant: jitter violations are left out of the count by type
TypesIn_NoJitter(ledger) == {ledger[i].violation_type : i \in 1..Len(ledger)} \ {"jitter"}

\* the keys violations_by_type gets: the types that occur in the ledger
TypesIn(ledger) == {ledger[i].violation_type : i \in 1..Len(ledger)}

\* the dictionary get_violation_summary returns
SummaryOf(ledger, counts) ==
    [total_violations |-> Len(ledger),
     violations_by_slice |-> counts,
     violations_by_type |->
        [t \in TypesIn(ledger) |->
            Cardinality({i \in 1..Len(ledger) : ledger[i].violation_type = t})],
     severity_distribution |->
        [s \in {"minor", "major", "critical"} |->
            Cardinality({i \in 1..Len(ledger) : ledger[i].severity = s})]]

GetViolationSummary ==
    /\ summary' = SummaryOf(violations, violation_counts)
    /\ sla_in' = NoValue
    /\ sla_out' = NoValue
    /\ lookup' = NoValue
    /\ sm_pre' = Push(sm_pre, Snapshot)
    /\ sm_ops' = Push(sm_ops, "summary")
    /\ UNCHANGED <<slices, violations, violation_counts, threads>>

\* mutant: only the ledger is emptied, the per-slice counters are kept
ClearedCounts_Kept(counts) == counts

\* for name in self.violation_counts: self.violation_counts[name] = 0
ClearedCounts(counts) == [n \in DOMAIN counts |-> 0]

ClearViolations ==
    /\ violations' = <<>>
    /\ violation_counts' = ClearedCounts(violation_counts)
    /\ sla_in' = NoValue
    /\ sla_out' = NoValue
    /\ summary' = NoValue
    /\ lookup' = NoValue
    /\ sm_pre' = Push(sm_pre, Snapshot)
    /\ sm_ops' = Push(sm_ops, "clear")
    /\ UNCHANGED <<slices, threads>>

(***************************************************************************)
(* check_sla and clear_violations called from several threads.  The class  *)
(* holds no lock and takes none, so the interpreter may switch threads     *)
(* between any two of the statements below, and inside `+=`, which loads   *)
(* the counter, adds, and stores the sum.                                  *)
(***************************************************************************)
\* one statement of thread t's call of check_sla(slice_name, metrics)
CheckSlaStep(t) ==
    /\ threads[t].op = "check_sla"
    /\ \/ /\ threads[t].pc = "evaluate"
          /\ LET r == CheckSlaResult(slices, threads[t].slice_name, threads[t].metrics)
             IN  threads' = [threads EXCEPT ![t].found = r.violations,
                                ![t].pc = IF r.violations = <<>> THEN "done" ELSE "extend"]
          /\ UNCHANGED <<violations, violation_counts>>
       \/ /\ threads[t].pc = "extend"
          /\ violations' = LedgerAfter(violations, threads[t].found)
          /\ threads' = [threads EXCEPT ![t].pc = "load"]
          /\ UNCHANGED violation_counts
       \/ /\ threads[t].pc = "load"
          /\ threads' = [threads EXCEPT ![t].loaded = violation_counts[threads[t].slice_name],
                                        ![t].pc = "store"]
          /\ UNCHANGED <<violations, violation_counts>>
       \/ /\ threads[t].pc = "store"
          /\ violation_counts' = [violation_counts EXCEPT ![threads[t].slice_name] =
                                     threads[t].loaded + Len(threads[t].found)]
          /\ threads' = [threads EXCEPT ![t].pc = "done"]
          /\ UNCHANGED violations
    /\ UNCHANGED <<slices, sla_in, sla_out, summary, sm_ops, sm_pre, lookup>>

\* one statement of thread t's call of clear_violations()
ClearViolationsStep(t) ==
    /\ threads[t].op = "clear_violations"
    /\ \/ /\ threads[t].pc = "ledger"
          /\ violations' = <<>>
          /\ threads' = [threads EXCEPT ![t].pc = "counters", ![t].at = 1]
          /\ UNCHANGED violation_counts
       \/ /\ threads[t].pc = "counters"
          /\ violation_counts' = [violation_counts EXCEPT ![SliceOrder[threads[t].at]] = 0]
          /\ threads' = [threads EXCEPT ![t].at = @ + 1,
                            ![t].pc = IF threads[t].at = Len(SliceOrder) THEN "done"
                                      ELSE "counters"]
          /\ UNCHANGED violations
    /\ UNCHANGED <<slices, sla_in, sla_out, summary, sm_ops, sm_pre, lookup>>

(***************************************************************************)
(* SliceManager.get_slice_by_port                                          *)
(***************************************************************************)
\* the value returned for None
None == "None"

RECURSIVE SliceByPortFrom(_, _, _)
\* the loop over self.slices.items() from the i-th entry on: the name of the
\* first slice whose port is the queried one, None when the loop ends
SliceByPortFrom(i, reg, port) ==
    IF i > Len(SliceOrder) THEN None
    ELSE IF reg[SliceOrder[i]].port = port THEN SliceOrder[i]
    ELSE SliceByPortFrom(i + 1, reg, port)

\* mutant: the comparison is <= instead of ==
SliceByPort_AtMost(reg, port) ==
    LET hits == {i \in 1..Len(SliceOrder) : reg[SliceOrder[i]].port <= port}
    IN  IF hits = {} THEN None
        ELSE SliceOrder[CHOOSE i \in hits : \A k \in hits : i <= k]

SliceByPort(reg, port) == SliceByPortFrom(1, reg, port)

\* one call of get_slice_by_port(port)
GetSliceByPort(port) ==
    /\ lookup' = [port |-> port, result |-> SliceByPort(slices, port)]
    /\ sla_in' = NoValue
    /\ sla_out' = NoValue
    /\ summary' = NoValue
    /\ sm_pre' = Push(sm_pre, Snapshot)
    /\ sm_ops' = Push(sm_ops, "lookup")
    /\ UNCHANGED <<slices, violations, violation_counts, threads>>

(***************************************************************************)
(* Inputs of check_sla.                                                    *)
(***************************************************************************)
\* a name that is in no registry
UnknownNames == {"IoT"}

\* the ports get_slice_by_port is asked for: the three slice ports, their
\* neighbours and 0
LookupPorts == {0, 5000, 5001, 5002, 5003, 5004}

\* measured values around a threshold e: zero, the severity boundaries and
\* their neighbours, the threshold itself and its neighbours
TestValues(e) ==
    {0, e \div 2, (4 * e) \div 5, Max(e - 1, 0), e, e + 1, (6 * e) \div 5, 2 * e + 1}

DictOver(keys, f) == [k \in keys |-> f[k]]

\* every sample around the thresholds of one SLA, all four keys present or some absent
WideSamples(sla) ==
    LET V(i) == TestValues(Threshold(sla, Dimensions[i]))
    IN  {DictOver(keys, [bandwidth_mbps |-> b, latency_ms |-> l,
                         jitter_ms |-> j, packet_loss_pct |-> p]) :
            keys \in {MetricKeys, {}} \cup {MetricKeys \ {k} : k \in MetricKeys},
            b \in V(1), l \in V(2), j \in V(3), p \in V(4)}

\* a few samples per slice: the two of the module's self-test (all within bounds;
\* bandwidth, latency and jitter breached) and one that breaches only jitter
NarrowSamples(sla) ==
    {[bandwidth_mbps |-> 2 * sla.min_bandwidth_mbps, latency_ms |-> (2 * sla.max_latency_ms) \div 5,
      jitter_ms |-> sla.max_jitter_ms \div 2, packet_loss_pct |-> 0],
     [bandwidth_mbps |-> (2 * sla.min_bandwidth_mbps) \div 5,
      latency_ms |-> 2 * sla.max_latency_ms,
      jitter_ms |-> 2 * sla.max_jitter_ms, packet_loss_pct |-> 0],
     [bandwidth_mbps |-> sla.min_bandwidth_mbps, latency_ms |-> sla.max_latency_ms,
      jitter_ms |-> sla.max_jitter_ms + 1, packet_loss_pct |-> sla.max_packet_loss_pct]}

\* the sample of the module's self-test that breaches three dimensions of URLLC
bad_metrics ==
    [bandwidth_mbps |-> 2000, latency_ms |-> 10000, jitter_ms |-> 2000, packet_loss_pct |-> 0]

\* the SLA whose thresholds the samples offered to slice_name are drawn around
SlaFor(slice_name) ==
    IF slice_name \in SliceNames THEN DEFAULT_SLAS[slice_name] ELSE DEFAULT_SLAS["URLLC"]

(***************************************************************************)
(* Initial states of the components.                                       *)
(***************************************************************************)
SMInit ==
    /\ slices = DefaultSlices
    /\ violations = <<>>
    /\ violation_counts = ZeroCounts
    /\ sla_in = NoValue
    /\ sla_out = NoValue
    /\ summary = NoValue
    /\ lookup = NoValue
    /\ sm_ops = <<>>
    /\ sm_pre = <<>>
    /\ threads = NoValue

SevIdle ==
    /\ sev_in = NoValue
    /\ sev_out = <<>>

(***************************************************************************)
(* SlicingController: configuration and switch-connect handling            *)
(***************************************************************************)
\* the datapath ids of the switches that may connect (s1, s2, s3 of the topology)
Dpids == {1, 2, 3}

\* SLICE_CONFIG, in dict order
SLICE_CONFIG ==
    <<[port |-> 5001, name |-> "URLLC", dscp |-> 46, meter_id |-> 1,
       rate_kbps |-> 10000, priority |-> 100],
      [port |-> 5002, name |-> "eMBB", dscp |-> 34, meter_id |-> 2,
       rate_kbps |-> 100000, priority |-> 50],
      [port |-> 5003, name |-> "mMTC", dscp |-> 10, meter_id |-> 3,
       rate_kbps |-> 5000, priority |-> 10]>>

SlicePorts == {SLICE_CONFIG[i].port : i \in 1..Len(SLICE_CONFIG)}

ConfigOfPort(port) ==
    SLICE_CONFIG[CHOOSE i \in 1..Len(SLICE_CONFIG) : SLICE_CONFIG[i].port = port]

\* the OFPFlowMod _add_flow sends: one apply-actions instruction, no meter, no goto
AddFlowMod(priority, match, actions, idle_timeout) ==
    [type |-> "flow_mod", table_id |-> 0, priority |-> priority, match |-> match,
     meter |-> 0, actions |-> actions, goto_table |-> 0,
     idle_timeout |-> idle_timeout, hard_timeout |-> 0]

\* the table-miss entry: empty match, output to the controller (OFPP_CONTROLLER,
\* 0xfffffffd, written as the 32-bit two's complement value -3)
TableMissMod ==
    AddFlowMod(0, <<>>, <<[type |-> "output", port |-> -3]>>, 0)

\* mutant: the burst size is the rate itself
MeterMod_BurstIsRate(config) ==
    [type |-> "meter_mod", command |-> "add", meter_id |-> config.meter_id,
     band |-> "drop", rate |-> config.rate_kbps, burst_size |-> config.rate_kbps]

\* the OFPMeterMod of one slice: one drop band, burst a tenth of the rate
MeterMod(config) ==
    [type |-> "meter_mod", command |-> "add", meter_id |-> config.meter_id,
     band |-> "drop", rate |-> config.rate_kbps, burst_size |-> config.rate_kbps \div 10]

\* the classification OFPFlowMod of one slice
SliceRuleMod(config) ==
    [type |-> "flow_mod", table_id |-> 0, priority |-> config.priority,
     match |-> [eth_type |-> 2048, ip_proto |-> 17, udp_dst |-> config.port],
     meter |-> config.meter_id,
     actions |-> <<[type |-> "set_dscp", value |-> config.dscp]>>,
     goto_table |-> 1, idle_timeout |-> 0, hard_timeout |-> 0]

\* _install_meters: one meter_mod per slice, in SLICE_CONFIG order
InstallMeters == [i \in 1..Len(SLICE_CONFIG) |-> MeterMod(SLICE_CONFIG[i])]

\* _install_slice_rules: one flow_mod per slice, in SLICE_CONFIG order
InstallSliceRules == [i \in 1..Len(SLICE_CONFIG) |-> SliceRuleMod(SLICE_CONFIG[i])]

\* mutant: the classification rules are pushed before the meters
ConnectInstalls_RulesFirst == <<TableMissMod>> \o InstallSliceRules \o InstallMeters

\* the installs of one switch-connect event, in the order of the calls of lines
\* 154-166: _add_flow for the table-miss entry, _install_meters, _install_slice_rules
ConnectInstalls == <<TableMissMod>> \o InstallMeters \o InstallSliceRules

\* switch_features_handler for datapath d
SwitchFeatures(d) ==
    /\ connects[d] < MaxConnects
    /\ datapaths' = datapaths \cup {d}
    /\ sent' = [sent EXCEPT ![d] = @ \o ConnectInstalls]
    /\ connects' = [connects EXCEPT ![d] = @ + 1]
    /\ UNCHANGED <<prev_stats, prev_time, metrics, exported, reply, samples>>
    /\ UNCHANGED <<mac_to_port, pkt_in, pkt_out, rdVars>>

\* switch_features_handler for datapath d when datapath.send_msg raises on the
\* k-th install: nothing in the handler, _add_flow, _install_meters or
\* _install_slice_rules catches it, so the handler ends there, after line 152
\* and the k - 1 installs before it
SwitchFeaturesSendRaises(d, k) ==
    /\ connects[d] < MaxConnects
    /\ datapaths' = datapaths \cup {d}
    /\ sent' = [sent EXCEPT ![d] = @ \o SubSeq(ConnectInstalls, 1, k - 1)]
    /\ connects' = [connects EXCEPT ![d] = @ + 1]
    /\ UNCHANGED <<prev_stats, prev_time, metrics, exported, reply, samples>>
    /\ UNCHANGED <<mac_to_port, pkt_in, pkt_out, rdVars>>

(***************************************************************************)
(* SlicingController.packet_in_handler                                     *)
(***************************************************************************)
\* OFPP_FLOOD (0xfffffffb) and OFP_NO_BUFFER (0xffffffff) as 32-bit two's
\* complement values
OFPP_FLOOD == -5
OFP_NO_BUFFER == -1

\* the ethertypes of LLDP, IPv4, ARP and IPv6
ETH_TYPE_LLDP == 35020
ETH_TYPE_IP == 2048
ETH_TYPE_ARP == 2054
ETH_TYPE_IPV6 == 34525

\* the host addresses frames come from, and the broadcast address
HostMacs == {"00:00:00:00:00:01", "00:00:00:00:00:02"}
BroadcastMac == "ff:ff:ff:ff:ff:ff"

\* the switch ports a packet-in arrives on
InPorts == {1, 2}

\* the buffer ids of a packet-in: the table-miss rule outputs to the controller
\* with OFPCML_NO_BUFFER, so the switch sends the whole frame and buffers nothing
BufferIds == {OFP_NO_BUFFER}

\* what packet.Packet(msg.data) yields: parsed says whether there is an Ethernet
\* header, ipv4 and udp whether get_protocol finds these headers
Frame(parsed, ethertype, src, dst, has_ipv4, has_udp, dst_port) ==
    [parsed |-> parsed, ethertype |-> ethertype, src |-> src, dst |-> dst,
     ipv4 |-> has_ipv4, udp |-> has_udp, dst_port |-> dst_port]

\* the frames offered: unparseable data, LLDP, ARP, IPv4/UDP to two slice ports
\* and to port 80, IPv6/UDP to a slice port
Frames ==
    {Frame(FALSE, 0, "", "", FALSE, FALSE, 0)}
    \cup {Frame(TRUE, ETH_TYPE_LLDP, "00:00:00:00:00:01", "01:80:c2:00:00:0e", FALSE, FALSE, 0)}
    \cup UNION {{Frame(TRUE, ETH_TYPE_ARP, src, dst, FALSE, FALSE, 0),
                 Frame(TRUE, ETH_TYPE_IP, src, dst, TRUE, TRUE, 5001),
                 Frame(TRUE, ETH_TYPE_IP, src, dst, TRUE, TRUE, 5003),
                 Frame(TRUE, ETH_TYPE_IP, src, dst, TRUE, TRUE, 80),
                 Frame(TRUE, ETH_TYPE_IPV6, src, dst, FALSE, TRUE, 5001)} :
                    src \in HostMacs, dst \in HostMacs \cup {BroadcastMac}}

\* mutant: LLDP frames are processed like user traffic
IsDropped_LldpKept(frame) == ~frame.parsed

\* the two early returns: no Ethernet header, or an LLDP frame
IsDropped(frame) == ~frame.parsed \/ frame.ethertype = ETH_TYPE_LLDP

\* self.mac_to_port.setdefault(dpid, {}) read back: the table of a switch
TableOf(tables, dpid) == IF dpid \in DOMAIN tables THEN tables[dpid] ELSE NoValue

\* mutant: an address that is already in the table keeps its first port
Learn_FirstSeen(tables, dpid, src, in_port) ==
    LET table == TableOf(tables, dpid)
    IN  [d \in DOMAIN tables \cup {dpid} |->
            IF d = dpid
            THEN [m \in DOMAIN table \cup {src} |->
                     IF m \in DOMAIN table THEN table[m] ELSE in_port]
            ELSE tables[d]]

\* setdefault(dpid, {}) and self.mac_to_port[dpid][src] = in_port
Learn(tables, dpid, src, in_port) ==
    LET table == TableOf(tables, dpid)
    IN  [d \in DOMAIN tables \cup {dpid} |->
            IF d = dpid
            THEN [m \in DOMAIN table \cup {src} |-> IF m = src THEN in_port ELSE table[m]]
            ELSE tables[d]]

\* mutant: the destination is looked up in the tables of all switches
OutPort_AnySwitch(tables, dpid, dst) ==
    LET hits == {d \in DOMAIN tables : dst \in DOMAIN tables[d]}
    IN  IF hits = {} THEN OFPP_FLOOD
        ELSE tables[CHOOSE d \in hits : \A e \in hits : d <= e][dst]

\* the output port: the port recorded for dst in this switch's table, else flood
OutPort(tables, dpid, dst) ==
    IF dst \in DOMAIN TableOf(tables, dpid) THEN tables[dpid][dst] ELSE OFPP_FLOOD

\* frame is IPv4/UDP to the port of a slice
IsSliceTraffic(frame) == frame.ipv4 /\ frame.udp /\ frame.dst_port \in SlicePorts

\* the actions of the packet-out (and of the rule, when one is installed)
PacketActions(frame, out_port) ==
    IF out_port # OFPP_FLOOD /\ IsSliceTraffic(frame)
    THEN <<[type |-> "set_dscp", value |-> ConfigOfPort(frame.dst_port).dscp],
           [type |-> "output", port |-> out_port]>>
    ELSE <<[type |-> "output", port |-> out_port]>>

\* mutant: the rule is installed without an idle timeout
InstalledFlows_Permanent(frame, in_port, out_port) ==
    IF out_port = OFPP_FLOOD THEN <<>>
    ELSE IF frame.ipv4 /\ frame.udp
    THEN IF frame.dst_port \in SlicePorts
         THEN <<AddFlowMod(ConfigOfPort(frame.dst_port).priority,
                           [in_port |-> in_port, eth_dst |-> frame.dst,
                            eth_type |-> ETH_TYPE_IP, ip_proto |-> 17,
                            udp_dst |-> frame.dst_port],
                           PacketActions(frame, out_port), 0)>>
         ELSE <<>>
    ELSE <<AddFlowMod(1, [in_port |-> in_port, eth_dst |-> frame.dst],
                      PacketActions(frame, out_port), 0)>>

\* the flow_mods the handler sends: none when flooding; for IPv4/UDP a slice
\* rule when the port is a slice's, none otherwise; for other frames an L2 rule
InstalledFlows(frame, in_port, out_port) ==
    IF out_port = OFPP_FLOOD THEN <<>>
    ELSE IF frame.ipv4 /\ frame.udp
    THEN IF frame.dst_port \in SlicePorts
         THEN <<AddFlowMod(ConfigOfPort(frame.dst_port).priority,
                           [in_port |-> in_port, eth_dst |-> frame.dst,
                            eth_type |-> ETH_TYPE_IP, ip_proto |-> 17,
                            udp_dst |-> frame.dst_port],
                           PacketActions(frame, out_port), 60)>>
         ELSE <<>>
    ELSE <<AddFlowMod(1, [in_port |-> in_port, eth_dst |-> frame.dst],
                      PacketActions(frame, out_port), 60)>>

\* mutant: the packet-out never carries the frame's bytes
PacketOut_NoData(datapath, buffer_id, in_port, actions) ==
    [type |-> "packet_out", datapath |-> datapath, buffer_id |-> buffer_id,
     in_port |-> in_port, actions |-> actions, with_data |-> FALSE]

\* the OFPPacketOut: the frame's bytes go with it when the switch did not buffer
PacketOut(datapath, buffer_id, in_port, actions) ==
    [type |-> "packet_out", datapath |-> datapath, buffer_id |-> buffer_id,
     in_port |-> in_port, actions |-> actions,
     with_data |-> (buffer_id = OFP_NO_BUFFER)]

\* packet_in_handler for a packet-in of datapath d
PacketIn(d, in_port, buffer_id, frame) ==
    /\ d \in datapaths
    /\ pkt_in' = [dpid |-> d, in_port |-> in_port, buffer_id |-> buffer_id,
                  frame |-> frame, before |-> mac_to_port, raised |-> FALSE]
    /\ IF IsDropped(frame)
       THEN /\ pkt_out' = <<>>
            /\ UNCHANGED mac_to_port
       ELSE LET tables   == Learn(mac_to_port, d, frame.src, in_port)
                out_port == OutPort(tables, d, frame.dst)
            IN  /\ mac_to_port' = tables
                /\ pkt_out' = InstalledFlows(frame, in_port, out_port)
                                \o <<PacketOut(d, buffer_id, in_port,
                                               PacketActions(frame, out_port))>>
    /\ UNCHANGED <<datapaths, sent, connects, prev_stats, prev_time, metrics, exported,
                   reply, samples>>

\* packet_in_handler for a packet-in during which datapath.send_msg raises on
\* the flow_mod: _add_flow and the handler have no try/except, so the handler
\* ends at the raise, after the source was learned and before the packet-out
PacketInSendRaises(d, in_port, buffer_id, frame) ==
    /\ d \in datapaths
    /\ ~IsDropped(frame)
    /\ LET tables   == Learn(mac_to_port, d, frame.src, in_port)
           out_port == OutPort(tables, d, frame.dst)
       IN  /\ InstalledFlows(frame, in_port, out_port) # <<>>
           /\ mac_to_port' = tables
           /\ pkt_out' = <<>>
    /\ pkt_in' = [dpid |-> d, in_port |-> in_port, buffer_id |-> buffer_id,
                  frame |-> frame, before |-> mac_to_port, raised |-> TRUE]
    /\ UNCHANGED <<datapaths, sent, connects, prev_stats, prev_time, metrics, exported,
                   reply, samples>>

(***************************************************************************)
(* The statistics poller: _monitor_loop and _request_stats.  The loop runs  *)
(* in a cooperative hub thread: it gives up control in hub.sleep only, so   *)
(* the for loop of one cycle runs without another handler in between.       *)
(***************************************************************************)
PolledDpids == {1, 2, 3}
MONITOR_INTERVAL == 5

\* _request_stats: datapath.send_msg(OFPFlowStatsRequest(datapath)); one more
\* request awaits the answer of switch d (counted up to MaxOutstanding)
RequestStats(requests, d) ==
    [requests EXCEPT ![d] = IF @ < MaxOutstanding THEN @ + 1 ELSE @]

\* mutant: datapaths whose previous request is unanswered are left out
PollTargets_Answered == {d \in datapaths : stats_requests[d] = 0}

\* the datapaths a cycle iterates: self.datapaths.values()
PollTargets == datapaths

\* _request_stats called once for every datapath of dps
RequestAll(requests, dps) ==
    [d \in Dpids |-> IF d \in dps THEN RequestStats(requests, d)[d] ELSE requests[d]]

\* what a cycle did: the registered datapaths and the live switches when it ran,
\* the number of requests it sent to each datapath, the datapath whose request
\* raised (0 for none) and the argument of the hub.sleep that follows
CycleRecord(requested, failed) ==
    [datapaths |-> datapaths, live |-> live,
     requested |-> [d \in Dpids |-> IF d \in requested THEN 1 ELSE 0],
     failed |-> failed, sleep |-> MONITOR_INTERVAL]

\* one pass of the body of `while True`: the for loop over the datapaths, then
\* the call of hub.sleep(5)
MonitorCycle ==
    /\ monitor_pc = "request"
    /\ stats_requests' = RequestAll(stats_requests, PollTargets)
    /\ poll' = CycleRecord(PollTargets, 0)
    /\ monitor_pc' = "sleep"
    /\ UNCHANGED <<live, shutdown>>
    /\ UNCHANGED <<datapaths, sent, connects, prev_stats, prev_time, metrics, exported,
                   reply, samples, mac_to_port, pkt_in, pkt_out, rdVars>>
    /\ UNCHANGED <<smVars, sevVars, mcVars, orVars>>

\* hub.sleep(5) returns and `while True` starts the next pass
MonitorWake ==
    /\ monitor_pc = "sleep"
    /\ monitor_pc' = "request"
    /\ poll' = NoValue
    /\ UNCHANGED <<stats_requests, live, shutdown>>
    /\ UNCHANGED <<datapaths, sent, connects, prev_stats, prev_time, metrics, exported,
                   reply, samples, mac_to_port, pkt_in, pkt_out, rdVars>>
    /\ UNCHANGED <<smVars, sevVars, mcVars, orVars>>

\* a pass in which datapath.send_msg raises for datapath d: neither
\* _request_stats nor _monitor_loop has a try/except, so the exception ends the
\* for loop, the while loop and the thread.  The datapaths requested before d
\* are those before it in the dictionary's order, which is the order of first
\* connection; that order is not kept here and any set `before` is taken.
MonitorCycleRaises(d, before) ==
    /\ monitor_pc = "request"
    /\ d \in PollTargets
    /\ before \subseteq PollTargets \ {d}
    /\ stats_requests' = RequestAll(stats_requests, before)
    /\ poll' = CycleRecord(before, d)
    /\ monitor_pc' = "dead"
    /\ UNCHANGED <<live, shutdown>>
    /\ UNCHANGED <<datapaths, sent, connects, prev_stats, prev_time, metrics, exported,
                   reply, samples, mac_to_port, pkt_in, pkt_out, rdVars>>

\* switch d answers one statistics request (the reply is then handled by
\* flow_stats_reply_handler, which reads and writes nothing of the poller)
SwitchReplies(d) ==
    /\ stats_requests[d] > 0
    /\ stats_requests' = [stats_requests EXCEPT ![d] = @ - 1]
    /\ UNCHANGED <<monitor_pc, poll, live, shutdown>>
    /\ UNCHANGED <<datapaths, sent, connects, prev_stats, prev_time, metrics, exported,
                   reply, samples, mac_to_port, pkt_in, pkt_out, rdVars>>

\* the connection of switch d goes down: the controller registers no handler for
\* the event (no EventOFPStateChange / DEAD_DISPATCHER handler), so nothing of
\* its state changes
SwitchDisconnects(d) ==
    /\ d \in live
    /\ live' = live \ {d}
    /\ UNCHANGED <<monitor_pc, poll, stats_requests, shutdown>>
    /\ UNCHANGED <<datapaths, sent, connects, prev_stats, prev_time, metrics, exported,
                   reply, samples, mac_to_port, pkt_in, pkt_out, rdVars>>

\* the controller is told to stop: the class defines no close or stop and keeps
\* no flag that _monitor_loop or a handler reads, so nothing of its state changes
ShutdownSignal ==
    /\ ~shutdown
    /\ shutdown' = TRUE
    /\ UNCHANGED <<monitor_pc, poll, stats_requests, live>>
    /\ UNCHANGED <<datapaths, sent, connects, prev_stats, prev_time, metrics, exported,
                   reply, samples, mac_to_port, pkt_in, pkt_out, rdVars>>
    /\ UNCHANGED <<smVars, sevVars, mcVars, orVars>>

(***************************************************************************)
(* Bandwidth from two cumulative byte counts                               *)
(***************************************************************************)
\* wall-clock readings (ms); time.time() is not monotonic
ClockValues == {0, 500, 1000}

\* one entry of a flow-stats reply (udp_dst 0 stands for a match without the field)
Stat(udp_dst, byte_count, packet_count, priority) ==
    [udp_dst |-> udp_dst, byte_count |-> byte_count, packet_count |-> packet_count,
     priority |-> priority, duration_sec |-> 5]

\* 'udp_dst' in stat.match
HasUdpDst(stat) == stat.udp_dst # 0

\* the replies a switch may give: no entry; one URLLC entry; entries of two slices
\* next to a UDP flow of no slice and the table-miss entry; two entries of one
\* slice (its classification rule and a rule installed on packet-in)
Bodies ==
    {<<>>,
     <<Stat(5001, 125000, 100, 100)>>,
     <<Stat(5001, 62, 1, 100), Stat(5002, 125000, 100, 50), Stat(80, 125000, 100, 1),
       Stat(0, 62, 1, 0)>>,
     <<Stat(5001, 125000, 100, 100), Stat(5001, 62, 1, 100)>>}

\* (byte_delta * 8) / (time_delta * 1000000) Mbps, as a fraction of thousandths:
\* time_delta is in ms here, so the value is byte_delta * 8 / time_delta
RawBandwidth(current_bytes, prev_bytes, time_delta) ==
    [num |-> (current_bytes - prev_bytes) * 8, den |-> time_delta]

\* mutant: the clamp is missing
NonNegative_Missing(q) == q

\* max(0, bandwidth_mbps), for a positive denominator
NonNegative(q) == IF q.num < 0 THEN [num |-> 0, den |-> q.den] ELSE q

\* round(x, 3): the nearest thousandth, ties to even
Round3(q) ==
    LET fl == q.num \div q.den
        r  == q.num % q.den
    IN  IF 2 * r < q.den THEN fl
        ELSE IF 2 * r > q.den THEN fl + 1
        ELSE IF fl % 2 = 0 THEN fl ELSE fl + 1

\* the bandwidth both the controller and the collector report
BandwidthMbps(current_bytes, prev_bytes, time_delta) ==
    IF time_delta > 0
    THEN Round3(NonNegative(RawBandwidth(current_bytes, prev_bytes, time_delta)))
    ELSE 0

(***************************************************************************)
(* SlicingController.flow_stats_reply_handler                              *)
(***************************************************************************)
RECURSIVE SliceSum(_, _, _)
\* the sum of a counter over the entries of body whose udp_dst is the slice's port
SliceSum(body, port, field) ==
    IF body = <<>> THEN 0
    ELSE (IF HasUdpDst(Head(body)) /\ Head(body).udp_dst = port
          THEN Head(body)[field] ELSE 0) + SliceSum(Tail(body), port, field)

PortOfSlice(name) ==
    SLICE_CONFIG[CHOOSE i \in 1..Len(SLICE_CONFIG) : SLICE_CONFIG[i].name = name].port

\* slice_stats: the per-slice aggregation of one reply
SliceStats(body) ==
    [n \in SliceNames |->
        [bytes   |-> SliceSum(body, PortOfSlice(n), "byte_count"),
         packets |-> SliceSum(body, PortOfSlice(n), "packet_count")]]

\* self.prev_stats.get(slice_name, {}).get('bytes', 0)
PrevBytes(prev, slice_name) ==
    IF slice_name \in DOMAIN prev THEN prev[slice_name].bytes ELSE 0

\* _export_metrics: one record per slice of self.metrics, in dict order
ExportRecords(m) ==
    [i \in 1..Len(SliceOrder) |->
        [slice_name |-> SliceOrder[i], bandwidth_mbps |-> m[SliceOrder[i]].bandwidth_mbps,
         packets |-> m[SliceOrder[i]].packets, bytes |-> m[SliceOrder[i]].bytes,
         controller |-> "ryu-slicing", type |-> "flow_stats"]]

\* mutant: the counters are stored reset to zero
StoredStats_Zeroed(slice_stats) ==
    [n \in DOMAIN slice_stats |-> [bytes |-> 0, packets |-> 0]]

\* self.prev_stats = slice_stats.copy()
StoredStats(slice_stats) == slice_stats

\* flow_stats_reply_handler for a reply of datapath d with entries body, handled at time t
FlowStatsReply(d, body, t) ==
    LET time_delta  == t - prev_time
        slice_stats == SliceStats(body)
    IN  /\ d \in datapaths
        /\ metrics' =
              [n \in SliceNames |->
                  [bytes |-> slice_stats[n].bytes,
                   packets |-> slice_stats[n].packets,
                   bandwidth_mbps |->
                       BandwidthMbps(slice_stats[n].bytes, PrevBytes(prev_stats, n), time_delta)]]
        /\ prev_stats' = StoredStats(slice_stats)
        /\ prev_time' = t
        /\ exported' = ExportRecords(metrics')
        /\ reply' = [dpid |-> d, time |-> t, stats |-> slice_stats, before |-> samples[d],
                      prev_stats |-> prev_stats, time_delta |-> time_delta]
        /\ samples' = [samples EXCEPT ![d] = [time |-> t, stats |-> slice_stats]]
        /\ UNCHANGED <<datapaths, sent, connects, mac_to_port, pkt_in, pkt_out>>

(***************************************************************************)
(* The stats-reply handler statement by statement, next to a reader.  The  *)
(* handlers of a Ryu application run in the application's event loop, a    *)
(* green thread of ryu.lib.hub: one event is handled after the other, and  *)
(* another green thread runs only when the running one blocks in the hub   *)
(* (hub.sleep, socket I/O).  The handler blocks nowhere in lines 385-428.  *)
(***************************************************************************)
MaxReplies == 2     \* stats replies handled while the handler is explored by statement

\* no handler under way; metrics, prev_stats and prev_time are those of __init__
HandlerIdle ==
    [pc |-> "idle", serial |-> 0, dpid |-> 0, time |-> 0, time_delta |-> 0,
     slice_stats |-> NoValue, before |-> NoValue, at |-> 0,
     metrics_of |-> [n \in SliceNames |-> 0], prev_stats_of |-> 0, prev_time_of |-> 0]

\* mutant: threads are preempted at any statement
Runnable_Preemptive(who) == TRUE

\* whether the hub may run green thread `who` now
Runnable(who) == handler.pc = "idle" \/ who = "stats_reply"

\* lines 385-404: the handler is entered, reads the clock and self.prev_time and
\* aggregates the body
ReplyBegin(d, body, t) ==
    /\ handler.pc = "idle"
    /\ handler.serial < MaxReplies
    /\ d \in datapaths
    /\ handler' = [handler EXCEPT !.pc = "metrics", !.serial = @ + 1, !.dpid = d, !.time = t,
                       !.time_delta = t - prev_time, !.slice_stats = SliceStats(body),
                       !.before = prev_stats, !.at = 1]
    /\ UNCHANGED <<prev_stats, prev_time, metrics, exported, reply, samples, observed>>
    /\ UNCHANGED <<datapaths, sent, connects, mac_to_port, pkt_in, pkt_out, pollVars>>

\* the next statement of the handler under way: one pass of the loop of lines
\* 407-425, line 427, line 428, or the export of line 431 and the return
ReplyStep ==
    /\ Runnable("stats_reply")
    /\ \/ /\ handler.pc = "metrics"
          /\ LET n == SliceOrder[handler.at]
             IN  /\ metrics' = [metrics EXCEPT ![n] =
                        [bytes |-> handler.slice_stats[n].bytes,
                         packets |-> handler.slice_stats[n].packets,
                         bandwidth_mbps |->
                            BandwidthMbps(handler.slice_stats[n].bytes,
                                          PrevBytes(prev_stats, n), handler.time_delta)]]
                 /\ handler' = [handler EXCEPT !.metrics_of[n] = handler.serial,
                                   !.at = @ + 1,
                                   !.pc = IF handler.at = Len(SliceOrder) THEN "prev_stats"
                                          ELSE "metrics"]
          /\ UNCHANGED <<prev_stats, prev_time, exported, reply, samples>>
       \/ /\ handler.pc = "prev_stats"
          /\ prev_stats' = StoredStats(handler.slice_stats)
          /\ handler' = [handler EXCEPT !.prev_stats_of = handler.serial, !.pc = "prev_time"]
          /\ UNCHANGED <<prev_time, metrics, exported, reply, samples>>
       \/ /\ handler.pc = "prev_time"
          /\ prev_time' = handler.time
          /\ handler' = [handler EXCEPT !.prev_time_of = handler.serial, !.pc = "export"]
          /\ UNCHANGED <<prev_stats, metrics, exported, reply, samples>>
       \/ /\ handler.pc = "export"
          /\ exported' = ExportRecords(metrics)
          /\ reply' = [dpid |-> handler.dpid, time |-> handler.time,
                        stats |-> handler.slice_stats, before |-> samples[handler.dpid],
                        prev_stats |-> handler.before, time_delta |-> handler.time_delta]
          /\ samples' = [samples EXCEPT ![handler.dpid] =
                            [time |-> handler.time, stats |-> handler.slice_stats]]
          /\ handler' = [handler EXCEPT !.pc = "idle", !.dpid = 0, !.time = 0,
                            !.time_delta = 0, !.slice_stats = NoValue, !.before = NoValue,
                            !.at = 0]
          /\ UNCHANGED <<prev_stats, prev_time, metrics>>
    /\ UNCHANGED observed
    /\ UNCHANGED <<datapaths, sent, connects, mac_to_port, pkt_in, pkt_out, pollVars>>

\* a reader in another green thread: get_metrics() returns self.metrics.copy();
\* prev_stats and prev_time are what a second handler entered now would read
GetMetrics ==
    /\ Runnable("reader")
    /\ observed' = [metrics |-> metrics, prev_stats |-> prev_stats, prev_time |-> prev_time,
                    metrics_of |-> handler.metrics_of,
                    prev_stats_of |-> handler.prev_stats_of,
                    prev_time_of |-> handler.prev_time_of]
    /\ UNCHANGED <<prev_stats, prev_time, metrics, exported, reply, samples, handler>>
    /\ UNCHANGED <<datapaths, sent, connects, mac_to_port, pkt_in, pkt_out, pollVars>>

CtlInit ==
    /\ datapaths = {}
    /\ sent = [d \in Dpids |-> <<>>]
    /\ connects = [d \in Dpids |-> 0]
    /\ prev_stats = NoValue
    /\ prev_time = 0
    /\ metrics = [n \in SliceNames |-> [bytes |-> 0, packets |-> 0, bandwidth_mbps |-> 0]]
    /\ exported = <<>>
    /\ reply = NoValue
    /\ samples = [d \in Dpids |-> NoValue]
    /\ mac_to_port = NoValue
    /\ pkt_in = NoValue
    /\ pkt_out = <<>>
    /\ monitor_pc = "request"
    /\ poll = NoValue
    /\ stats_requests = [d \in Dpids |-> 0]
    /\ live = {}
    /\ shutdown = FALSE
    /\ handler = HandlerIdle
    /\ observed = NoValue

(***************************************************************************)
(* MetricsCollector._collect_controller_metrics                            *)
(***************************************************************************)
PORT_TO_SLICE == [p \in SlicePorts |-> ConfigOfPort(p).name]

RECURSIVE CollectFlows(_, _, _)
\* the loop over the flow entries: acc is [metrics, prev, ...], the FlowMetrics
\* appended so far and prev_flow_stats as updated so far; next to them, for the
\* record of the poll: now, the time of this collection, at, the collection time
\* at which each entry of prev was stored, and used, per FlowMetric appended the
\* slice and the time at which the previous byte count it was computed from was
\* stored (none when the slice had no entry)
CollectFlows(flows, time_delta, acc) ==
    IF flows = <<>> THEN acc
    ELSE LET flow == Head(flows)
         IN  IF HasUdpDst(flow) /\ flow.udp_dst \in DOMAIN PORT_TO_SLICE
             THEN LET slice_name == PORT_TO_SLICE[flow.udp_dst]
                      metric == [slice_name |-> slice_name,
                                 bandwidth_mbps |->
                                     BandwidthMbps(flow.byte_count,
                                                   PrevBytes(acc.prev, slice_name),
                                                   time_delta),
                                 packets |-> flow.packet_count,
                                 bytes |-> flow.byte_count,
                                 duration_sec |-> flow.duration_sec,
                                 priority |-> flow.priority]
                  IN  CollectFlows(Tail(flows), time_delta,
                          [metrics |-> Append(acc.metrics, metric),
                           prev |-> [n \in DOMAIN acc.prev \cup {slice_name} |->
                                        IF n = slice_name
                                        THEN [bytes |-> flow.byte_count,
                                              packets |-> flow.packet_count]
                                        ELSE acc.prev[n]],
                           now |-> acc.now,
                           at |-> [n \in DOMAIN acc.at \cup {slice_name} |->
                                      IF n = slice_name THEN acc.now ELSE acc.at[n]],
                           used |-> Append(acc.used,
                                       [slice_name |-> slice_name,
                                        had_prev |-> slice_name \in DOMAIN acc.at,
                                        prev_at |-> IF slice_name \in DOMAIN acc.at
                                                    THEN acc.at[slice_name] ELSE 0])])
             ELSE CollectFlows(Tail(flows), time_delta, acc)

\* _collect_controller_metrics: status is the HTTP status of GET /stats/flow/1
\* (0 stands for a RequestException), flows the entries under key '1', t the time read
CollectControllerMetrics(status, flows, t) ==
    IF status # 200
    THEN /\ mc_poll' = [status |-> status, time |-> t, flows |-> <<>>,
                        first |-> Len(flow_metrics) + 1, time_delta |-> 0,
                        prev_time |-> mc_prev_time, used |-> <<>>,
                        at |-> IF IsSet(mc_poll) THEN mc_poll.at ELSE NoValue]
         /\ UNCHANGED <<flow_metrics, prev_flow_stats, mc_prev_time>>
    ELSE LET time_delta == t - mc_prev_time
             done == CollectFlows(flows, time_delta,
                                  [metrics |-> flow_metrics, prev |-> prev_flow_stats,
                                   now |-> t, used |-> <<>>,
                                   at |-> IF IsSet(mc_poll) THEN mc_poll.at ELSE NoValue])
         IN  /\ Len(done.metrics) <= MaxFlowMetrics
             /\ flow_metrics' = done.metrics
             /\ prev_flow_stats' = done.prev
             /\ mc_prev_time' = t
             /\ mc_poll' = [status |-> status, time |-> t, flows |-> flows,
                            first |-> Len(flow_metrics) + 1, time_delta |-> time_delta,
                            prev_time |-> mc_prev_time, used |-> done.used, at |-> done.at]

\* the controller after switches 1 and 2 have connected once each
ConnectedInit ==
    /\ datapaths = {1, 2}
    /\ sent = [d \in Dpids |-> IF d \in {1, 2}
                                THEN <<TableMissMod>> \o InstallMeters \o InstallSliceRules
                                ELSE <<>>]
    /\ connects = [d \in Dpids |-> IF d \in {1, 2} THEN 1 ELSE 0]
    /\ prev_stats = NoValue
    /\ prev_time = 0
    /\ metrics = [n \in SliceNames |-> [bytes |-> 0, packets |-> 0, bandwidth_mbps |-> 0]]
    /\ exported = <<>>
    /\ reply = NoValue
    /\ samples = [d \in Dpids |-> NoValue]
    /\ mac_to_port = NoValue
    /\ pkt_in = NoValue
    /\ pkt_out = <<>>
    /\ monitor_pc = "request"
    /\ poll = NoValue
    /\ stats_requests = [d \in Dpids |-> 0]
    /\ live = {1, 2}
    /\ shutdown = FALSE
    /\ handler = HandlerIdle
    /\ observed = NoValue

MCInit ==
    /\ flow_metrics = <<>>
    /\ prev_flow_stats = NoValue
    /\ mc_prev_time = 0
    /\ mc_poll = NoValue
    /\ flow_file = <<>>
    /\ mc_sla = NoValue
    /\ collector = [running |-> FALSE, collection_thread |-> 0, threads |-> <<>>,
                    joining |-> FALSE, op |-> ""]

\* the thresholds written out in _check_sla
sla_requirements ==
    [URLLC |-> [min_bandwidth_mbps |-> 5000, max_latency_ms |-> 5000,
                max_jitter_ms |-> 1000, max_packet_loss_pct |-> 1],
     eMBB  |-> [min_bandwidth_mbps |-> 50000, max_latency_ms |-> 20000,
                max_jitter_ms |-> 5000, max_packet_loss_pct |-> 1000],
     mMTC  |-> [min_bandwidth_mbps |-> 1000, max_latency_ms |-> 100000,
                max_jitter_ms |-> 20000, max_packet_loss_pct |-> 1000]]

\* mutant: a value equal to its threshold counts as a violation
McViolations_Inclusive(sla, m) ==
    (IF m.bandwidth_mbps <= sla.min_bandwidth_mbps THEN {"bandwidth"} ELSE {})
    \cup (IF m.latency_ms >= sla.max_latency_ms THEN {"latency"} ELSE {})
    \cup (IF m.jitter_ms >= sla.max_jitter_ms THEN {"jitter"} ELSE {})
    \cup (IF m.packet_loss_pct >= sla.max_packet_loss_pct THEN {"packet_loss"} ELSE {})

\* the list `violations` of _check_sla (only its emptiness is used)
McViolations(sla, m) ==
    (IF m.bandwidth_mbps < sla.min_bandwidth_mbps THEN {"bandwidth"} ELSE {})
    \cup (IF m.latency_ms > sla.max_latency_ms THEN {"latency"} ELSE {})
    \cup (IF m.jitter_ms > sla.max_jitter_ms THEN {"jitter"} ELSE {})
    \cup (IF m.packet_loss_pct > sla.max_packet_loss_pct THEN {"packet_loss"} ELSE {})

\* MetricsCollector._check_sla(slice_name, m), for a dict m that has the four keys
McCheckSla(slice_name, m) ==
    /\ DOMAIN m = MetricKeys
    /\ mc_sla' = [slice_name |-> slice_name, metrics |-> m,
                  status |-> IF slice_name \notin DOMAIN sla_requirements THEN "unknown"
                             ELSE IF McViolations(sla_requirements[slice_name], m) # {}
                                  THEN "violated" ELSE "compliant"]
    /\ UNCHANGED <<flow_metrics, prev_flow_stats, mc_prev_time, mc_poll, flow_file, collector>>

\* FlowMetric.to_dict: dataclasses.asdict, a dict of the fields (the timestamp
\* field, the wall-clock time of the collection, is not kept in the model)
ToDict(m) ==
    [slice_name |-> m.slice_name, bandwidth_mbps |-> m.bandwidth_mbps,
     packets |-> m.packets, bytes |-> m.bytes, duration_sec |-> m.duration_sec,
     priority |-> m.priority]

EXPORT_WINDOW == 100

\* list[-n:]: the last n elements, all of them when there are fewer
LastN(list, n) == SubSeq(list, Max(1, Len(list) - n + 1), Len(list))

\* the lines _export_metrics hands to _write_metrics_file('flow_metrics.json'):
\* [m.to_dict() for m in self.flow_metrics[-100:]]
ExportBatch(list) ==
    [i \in 1..Len(LastN(list, EXPORT_WINDOW)) |-> ToDict(LastN(list, EXPORT_WINDOW)[i])]

\* one pass of _collection_loop: _collect_controller_metrics (which catches its
\* own exceptions), _collect_iperf_metrics with no iperf3 result file in /tmp
\* (slice_metrics stays empty), then _export_metrics, whose _write_metrics_file
\* appends the batch to the file; _send_to_logstash changes nothing here
CollectionCycle(status, flows, t) ==
    /\ CollectControllerMetrics(status, flows, t)
    /\ Len(flow_file) + Len(ExportBatch(flow_metrics')) <= MaxExportFile
    /\ flow_file' = flow_file \o ExportBatch(flow_metrics')
    /\ UNCHANGED mc_sla

(***************************************************************************)
(* MetricsCollector.start, stop and the threads that run _collection_loop. *)
(* collector.threads lists the threads ever started, with their position:  *)
(* at the test of `while self.running`, in a cycle, in time.sleep, ended.  *)
(* stopped tells that stop() was called during the thread's life, late     *)
(* that the thread began a cycle after that.  start and stop are called by *)
(* one caller, who waits in stop() while join has not returned.            *)
(***************************************************************************)
MaxThreads == 2     \* collection threads started in one behaviour

\* start()
CollectorStart ==
    /\ ~collector.joining
    /\ IF collector.running
       THEN collector' = [collector EXCEPT !.op = "start ignored"]
       ELSE /\ Len(collector.threads) < MaxThreads
            /\ collector' = [collector EXCEPT !.running = TRUE,
                                !.threads = Append(@, [pc |-> "while", stopped |-> FALSE,
                                                       late |-> FALSE]),
                                !.collection_thread = Len(collector.threads) + 1,
                                !.op = "start"]
    /\ UNCHANGED <<flow_metrics, prev_flow_stats, mc_prev_time, mc_poll, flow_file, mc_sla>>

\* stop(), up to the call of join: self.running = False
CollectorStop ==
    /\ ~collector.joining
    /\ collector' = [collector EXCEPT !.running = FALSE,
                        !.joining = collector.collection_thread # 0,
                        !.threads = [k \in DOMAIN collector.threads |->
                                        IF collector.threads[k].pc = "ended"
                                        THEN collector.threads[k]
                                        ELSE [collector.threads[k] EXCEPT !.stopped = TRUE]],
                        !.op = "stop"]
    /\ UNCHANGED <<flow_metrics, prev_flow_stats, mc_prev_time, mc_poll, flow_file, mc_sla>>

\* self.collection_thread.join(timeout=10) returns: the thread has ended, or the
\* ten seconds are over while it is still in a cycle (the GET of the cycle has
\* a timeout of 5 s and every POST to Logstash one of 2 s)
JoinReturns ==
    /\ collector.joining
    /\ collector.threads[collector.collection_thread].pc \in {"ended", "cycle"}
    /\ collector' = [collector EXCEPT !.joining = FALSE]
    /\ UNCHANGED <<flow_metrics, prev_flow_stats, mc_prev_time, mc_poll, flow_file, mc_sla>>

\* the next step of thread k in _collection_loop: the test of `while
\* self.running`; one cycle, in which the poll answers with status (0: the
\* controller is unreachable) and whose exceptions are caught; the return of
\* time.sleep(COLLECTION_INTERVAL)
LoopStep(k, status, flows, t) ==
    /\ k \in DOMAIN collector.threads
    /\ \/ /\ collector.threads[k].pc = "while"
          /\ collector' = [collector EXCEPT
                              !.threads[k].pc = IF collector.running THEN "cycle" ELSE "ended",
                              !.threads[k].late = collector.running /\ collector.threads[k].stopped]
          /\ UNCHANGED <<flow_metrics, prev_flow_stats, mc_prev_time, mc_poll, flow_file, mc_sla>>
       \/ /\ collector.threads[k].pc = "cycle"
          /\ CollectionCycle(status, flows, t)
          /\ collector' = [collector EXCEPT !.threads[k].pc = "sleep"]
       \/ /\ collector.threads[k].pc = "sleep"
          /\ collector' = [collector EXCEPT !.threads[k].pc = "while"]
          /\ UNCHANGED <<flow_metrics, prev_flow_stats, mc_prev_time, mc_poll, flow_file, mc_sla>>

(***************************************************************************)
(* orchestrator MetricsCollector: aggregate_metrics, get_metrics_summary   *)
(***************************************************************************)
\* an iperf3 end summary as parse_iperf3_output returns it (bits_per_second in
\* multiples of 1000, jitter_ms and lost_percent in thousandths)
IperfData(bits_per_second, jitter_ms, lost_percent, packets, lost_packets) ==
    [bytes |-> bits_per_second \div 8, bits_per_second |-> bits_per_second,
     jitter_ms |-> jitter_ms, lost_packets |-> lost_packets, packets |-> packets,
     lost_percent |-> lost_percent]

\* the metrics_dict aggregate_metrics hands to check_sla (thousandths); without
\* iperf data every value keeps its default 0; latency is estimated as 2 * jitter
MetricsDict(iperf_data) ==
    LET jitter == IF IsSet(iperf_data) THEN iperf_data.jitter_ms ELSE 0
    IN  [bandwidth_mbps |-> IF IsSet(iperf_data) THEN iperf_data.bits_per_second \div 1000 ELSE 0,
         latency_ms |-> jitter * 2,
         jitter_ms |-> jitter,
         packet_loss_pct |-> IF IsSet(iperf_data) THEN iperf_data.lost_percent ELSE 0]

\* the SliceMetrics object aggregate_metrics builds
SliceMetricsOf(slice_name, iperf_data, sla_status) ==
    LET d == MetricsDict(iperf_data)
    IN  [slice_name |-> slice_name,
         bandwidth_mbps |-> Round3([num |-> d.bandwidth_mbps, den |-> 1]),
         latency_ms |-> Round3([num |-> d.latency_ms, den |-> 1]),
         jitter_ms |-> Round3([num |-> d.jitter_ms, den |-> 1]),
         packet_loss_pct |-> Round3([num |-> d.packet_loss_pct, den |-> 1]),
         packets_sent |-> IF IsSet(iperf_data) THEN iperf_data.packets ELSE 0,
         packets_received |-> IF IsSet(iperf_data)
                              THEN iperf_data.packets - iperf_data.lost_packets ELSE 0,
         bytes_transferred |-> IF IsSet(iperf_data) THEN iperf_data.bytes ELSE 0,
         sla_status |-> sla_status]

\* aggregate_metrics(slice_name, iperf_data): the check_sla call on the collector's
\* slice manager, then the append to that slice's history
AggregateMetrics(slice_name, iperf_data) ==
    /\ Len(metrics_history[slice_name]) < MaxHistory
    /\ CheckSla(slice_name, MetricsDict(iperf_data))
    /\ metrics_history' =
          [metrics_history EXCEPT ![slice_name] =
              Append(@, SliceMetricsOf(slice_name, iperf_data, sla_out'.status))]
    /\ metrics_summary' = NoValue

RECURSIVE SumOf(_, _)
\* sum(m.<field> for m in history)
SumOf(history, field) ==
    IF history = <<>> THEN 0 ELSE Head(history)[field] + SumOf(Tail(history), field)

\* round(x, 1): the nearest tenth, ties to even
Round1(q) == Round3(q)

\* mutant: the share of violated samples is reported
ComplianceRate_Violated(total, violated) ==
    Round1([num |-> violated * 1000, den |-> total])

\* round((len(history) - violations) / len(history) * 100, 1), in tenths of a percent
ComplianceRate(total, violated) ==
    Round1([num |-> (total - violated) * 1000, den |-> total])

\* the summary entry of one slice
SliceSummary(history) ==
    IF history = <<>> THEN [samples |-> 0]
    ELSE LET n == Len(history)
             v == Cardinality({i \in 1..n : history[i].sla_status = "violated"})
         IN  [samples |-> n,
              avg_bandwidth_mbps |-> Round3([num |-> SumOf(history, "bandwidth_mbps"), den |-> n]),
              avg_latency_ms |-> Round3([num |-> SumOf(history, "latency_ms"), den |-> n]),
              avg_jitter_ms |-> Round3([num |-> SumOf(history, "jitter_ms"), den |-> n]),
              avg_packet_loss_pct |-> Round3([num |-> SumOf(history, "packet_loss_pct"), den |-> n]),
              sla_violations |-> v,
              compliance_rate |-> ComplianceRate(n, v)]

\* get_metrics_summary
GetMetricsSummary ==
    /\ metrics_summary' = [n \in DOMAIN metrics_history |-> SliceSummary(metrics_history[n])]
    /\ UNCHANGED metrics_history

\* the iperf3 results offered for a slice: none; one within every bound of the
\* slice's SLA; one whose jitter exceeds its ceiling
IperfInputs(slice_name) ==
    LET sla == DEFAULT_SLAS[slice_name]
    IN  {NoValue,
         IperfData(2 * sla.min_bandwidth_mbps * 1000, sla.max_jitter_ms \div 2, 0, 1000, 0),
         IperfData(2 * sla.min_bandwidth_mbps * 1000, sla.max_jitter_ms + 1000, 0, 1000, 0)}

\* the slices an experiment generates traffic for (start_experiment's slices argument)
TestedSlices == {"URLLC", "eMBB"}

\* start_experiment's slices, in the order of the list
TestedOrder == <<"URLLC", "eMBB">>

NoRun == [n \in SliceNames |-> [samples |-> 0, violated |-> 0]]

\* start_experiment up to the start of the traffic tests: self.running is set
\* and the slice manager's violations are cleared; the collector and its
\* metrics_history are the ones made in __init__
StartExperiment ==
    /\ ~experiment.running
    /\ ClearViolations
    /\ experiment' = [running |-> TRUE, next |-> 1, results |-> FALSE, run |-> NoRun]
    /\ UNCHANGED <<metrics_history, metrics_summary>>

\* _run_traffic_tests, the result of the next slice: its iperf3 file holds data,
\* which is aggregated (and exported)
CollectResult(iperf_data) ==
    /\ experiment.running
    /\ experiment.next <= Len(TestedOrder)
    /\ AggregateMetrics(TestedOrder[experiment.next], iperf_data)
    /\ experiment' =
          [experiment EXCEPT
              !.next = @ + 1,
              !.run[TestedOrder[experiment.next]] =
                  [samples |-> @.samples + 1,
                   violated |-> @.violated + IF sla_out'.status = "violated" THEN 1 ELSE 0]]

\* _run_traffic_tests, the result of the next slice: no iperf3 file, or no data in it
SkipResult ==
    /\ experiment.running
    /\ experiment.next <= Len(TestedOrder)
    /\ experiment' = [experiment EXCEPT !.next = @ + 1]
    /\ UNCHANGED <<metrics_history, metrics_summary>>
    /\ UNCHANGED smVars

\* the end of start_experiment: self.running = False, then _generate_results
\* with get_metrics_summary and get_violation_summary
GenerateResults ==
    /\ experiment.running
    /\ experiment.next > Len(TestedOrder)
    /\ GetMetricsSummary
    /\ GetViolationSummary
    /\ experiment' = [experiment EXCEPT !.running = FALSE, !.results = TRUE]

ORInit ==
    /\ metrics_history = [n \in SliceNames |-> <<>>]
    /\ metrics_summary = NoValue
    /\ experiment = [running |-> FALSE, next |-> 1, results |-> FALSE, run |-> NoRun]

(***************************************************************************)
(* Specifications.  The slice manager, the controller and the collector    *)
(* are separate objects that share no state; each specification runs the   *)
(* operations of the objects its properties are about and leaves the       *)
(* others as constructed.                                                  *)
(***************************************************************************)
\* ---- _get_severity on drawn inputs --------------------------------------
SevInputs ==
    [expected : 0..MaxExpected, actual : 0..MaxActual, actual2 : 0..MaxActual,
     requirement_type : {"min", "max"}]

SevInit ==
    /\ SMInit /\ CtlInit /\ MCInit /\ ORInit
    /\ sev_in \in SevInputs
    /\ sev_out = <<>>

\* _get_severity applied to the drawn expected value and to each of the two actual values
SeverityStep ==
    /\ sev_out = <<>>
    /\ sev_out' = <<GetSeverity(sev_in.expected, sev_in.actual, sev_in.requirement_type),
                    GetSeverity(sev_in.expected, sev_in.actual2, sev_in.requirement_type)>>
    /\ UNCHANGED <<sev_in, smVars, ctlVars, mcVars, orVars>>

SpecSev == SevInit /\ [][SeverityStep]_vars

\* ---- one check_sla call on a fresh manager, over a wide grid of samples --
EvalInit ==
    /\ slices = DefaultSlices
    /\ violations = <<>>
    /\ violation_counts = ZeroCounts
    /\ sla_in \in UNION {{[slice_name |-> n, metrics |-> m] : m \in WideSamples(SlaFor(n))} :
                            n \in SliceNames \cup UnknownNames}
    /\ sla_out = NoValue
    /\ summary = NoValue
    /\ lookup = NoValue
    /\ sm_ops = <<>>
    /\ sm_pre = <<>>
    /\ threads = NoValue
    /\ SevIdle /\ CtlInit /\ MCInit /\ ORInit

EvalStep ==
    /\ sm_ops = <<>>
    /\ CheckSla(sla_in.slice_name, sla_in.metrics)
    /\ UNCHANGED <<sevVars, ctlVars, mcVars, orVars>>

SpecEval == EvalInit /\ [][EvalStep]_vars

\* ---- the same sample given to check_sla and to the collector's _check_sla -
SpecAgree ==
    EvalInit /\ [][\/ EvalStep
                   \/ /\ ~IsSet(mc_sla)
                      /\ McCheckSla(sla_in.slice_name, sla_in.metrics)
                      /\ UNCHANGED <<smVars, sevVars, ctlVars, orVars>>]_vars

\* ---- the slice manager over sequences of calls ---------------------------
CheckSlaCall ==
    /\ \E n \in SliceNames \cup UnknownNames : \E m \in NarrowSamples(SlaFor(n)) :
          CheckSla(n, m)
    /\ UNCHANGED <<sevVars, ctlVars, mcVars, orVars>>

ClearViolationsCall == ClearViolations /\ UNCHANGED <<sevVars, ctlVars, mcVars, orVars>>

GetViolationSummaryCall == GetViolationSummary /\ UNCHANGED <<sevVars, ctlVars, mcVars, orVars>>

GetSliceByPortCall ==
    /\ \E port \in LookupPorts : GetSliceByPort(port)
    /\ UNCHANGED <<sevVars, ctlVars, mcVars, orVars>>

SMNext == CheckSlaCall \/ ClearViolationsCall \/ GetViolationSummaryCall \/ GetSliceByPortCall

\* every object as constructed
FreshInit == SMInit /\ SevIdle /\ CtlInit /\ MCInit /\ ORInit

SpecSM == FreshInit /\ [][SMNext]_vars


\* ---- two threads in check_sla and one in clear_violations ----------------
ConcInit ==
    /\ slices = DefaultSlices
    /\ violations = <<>>
    /\ violation_counts = ZeroCounts
    /\ sla_in = NoValue
    /\ sla_out = NoValue
    /\ summary = NoValue
    /\ lookup = NoValue
    /\ sm_ops = <<>>
    /\ sm_pre = <<>>
    /\ \E n1 \in TestedSlices, n2 \in TestedSlices :
       \E m1 \in NarrowSamples(SlaFor(n1)), m2 \in NarrowSamples(SlaFor(n2)) :
          threads = [t \in {1, 2, 3} |->
                        [op |-> IF t = 3 THEN "clear_violations" ELSE "check_sla",
                         pc |-> IF t = 3 THEN "ledger" ELSE "evaluate",
                         slice_name |-> IF t = 1 THEN n1 ELSE n2,
                         metrics |-> IF t = 1 THEN m1 ELSE m2,
                         found |-> <<>>, loaded |-> 0, at |-> 0]]
    /\ SevIdle /\ CtlInit /\ MCInit /\ ORInit

ConcNext ==
    \/ \E t \in DOMAIN threads : CheckSlaStep(t) /\ UNCHANGED <<sevVars, ctlVars, mcVars, orVars>>
    \/ \E t \in DOMAIN threads :
          ClearViolationsStep(t) /\ UNCHANGED <<sevVars, ctlVars, mcVars, orVars>>

SpecConc == ConcInit /\ [][ConcNext]_vars

\* ---- the orchestrator's collector over its slice manager ----------------
AggregateMetricsCall ==
    /\ \E n \in TestedSlices : \E data \in IperfInputs(n) : AggregateMetrics(n, data)
    /\ UNCHANGED experiment
    /\ UNCHANGED <<sevVars, ctlVars, mcVars>>

GetMetricsSummaryCall ==
    /\ GetMetricsSummary
    /\ UNCHANGED experiment
    /\ UNCHANGED <<smVars, sevVars, ctlVars, mcVars>>

OrchNext == AggregateMetricsCall \/ GetMetricsSummaryCall

SpecOrch == FreshInit /\ [][OrchNext]_vars

\* ---- the experiment runner: runs of start_experiment, one after another --
ExperimentNext ==
    \/ StartExperiment /\ UNCHANGED <<sevVars, ctlVars, mcVars>>
    \/ /\ experiment.next <= Len(TestedOrder)
       /\ \E data \in IperfInputs(TestedOrder[experiment.next]) \ {NoValue} :
             CollectResult(data)
       /\ UNCHANGED <<sevVars, ctlVars, mcVars>>
    \/ SkipResult /\ UNCHANGED <<sevVars, ctlVars, mcVars>>
    \/ GenerateResults /\ UNCHANGED <<sevVars, ctlVars, mcVars>>

SpecExp == FreshInit /\ [][ExperimentNext]_vars

\* ---- the controller: switch connects ----------------------------------
SwitchConnect ==
    /\ \E d \in Dpids : SwitchFeatures(d) /\ live' = live \cup {d}
    /\ UNCHANGED <<monitor_pc, poll, stats_requests, shutdown>>
    /\ UNCHANGED <<smVars, sevVars, mcVars, orVars>>

SpecConn == FreshInit /\ [][SwitchConnect]_vars

\* ---- bandwidth: the controller's stats replies, the collector's polls ----
\* The controller (under ryu-manager) and the collector are two programs; a
\* behaviour is a run of one of them, from the controller with switches 1 and 2
\* connected or from the collector as constructed.
StatsReply ==
    /\ ~IsSet(mc_poll)
    /\ \E d \in Dpids : \E body \in Bodies : \E t \in ClockValues : FlowStatsReply(d, body, t)
    /\ UNCHANGED <<pollVars, rdVars, smVars, sevVars, mcVars, orVars>>

CollectorPoll ==
    /\ ~IsSet(reply)
    /\ \E status \in {200, 500, 0} : \E flows \in Bodies : \E t \in ClockValues :
          CollectControllerMetrics(status, flows, t)
    /\ UNCHANGED <<flow_file, mc_sla, collector>>
    /\ UNCHANGED <<smVars, sevVars, ctlVars, orVars>>

RatesNext == StatsReply \/ CollectorPoll

RatesInit == SMInit /\ SevIdle /\ ConnectedInit /\ MCInit /\ ORInit

SpecRates == RatesInit /\ [][RatesNext]_vars

\* ---- the stats-reply handler by statement, with a reader ------------------
AtomicNext ==
    \/ /\ \E d \in Dpids : \E body \in Bodies : \E t \in ClockValues : ReplyBegin(d, body, t)
       /\ UNCHANGED <<smVars, sevVars, mcVars, orVars>>
    \/ ReplyStep /\ UNCHANGED <<smVars, sevVars, mcVars, orVars>>
    \/ GetMetrics /\ UNCHANGED <<smVars, sevVars, mcVars, orVars>>

SpecAtomic == RatesInit /\ [][AtomicNext]_vars

\* ---- the controller: packet-in events of the connected switches ---------
PacketInEvent ==
    /\ \E d \in Dpids : \E in_port \in InPorts : \E buffer_id \in BufferIds :
          \E frame \in Frames : PacketIn(d, in_port, buffer_id, frame)
    /\ UNCHANGED <<pollVars, rdVars, smVars, sevVars, mcVars, orVars>>

SpecPkt == RatesInit /\ [][PacketInEvent]_vars

\* ---- packet-in events, some of whose rule installs raise in send_msg -----
PacketInRaisesEvent ==
    /\ \E d \in Dpids : \E in_port \in InPorts : \E buffer_id \in BufferIds :
          \E frame \in Frames : PacketInSendRaises(d, in_port, buffer_id, frame)
    /\ UNCHANGED <<pollVars, rdVars, smVars, sevVars, mcVars, orVars>>

PktFaultNext == PacketInEvent \/ PacketInRaisesEvent

SpecPktFault == RatesInit /\ [][PktFaultNext]_vars

\* ---- the controller: the poller, connects and the switches' answers ------
PollSwitchConnect ==
    /\ \E d \in PolledDpids :
          /\ connects[d] < MaxPollConnects
          /\ SwitchFeatures(d)
          /\ live' = live \cup {d}
    /\ UNCHANGED <<monitor_pc, poll, stats_requests, shutdown>>
    /\ UNCHANGED <<smVars, sevVars, mcVars, orVars>>

SwitchRepliesStep ==
    /\ \E d \in PolledDpids : SwitchReplies(d)
    /\ UNCHANGED <<smVars, sevVars, mcVars, orVars>>

PollNext == PollSwitchConnect \/ MonitorCycle \/ MonitorWake \/ SwitchRepliesStep

\* the hub runs the monitor thread whenever it can run, and hub.sleep returns;
\* nothing obliges a switch to answer or to connect
SpecPoll ==
    FreshInit /\ [][PollNext]_vars /\ WF_vars(MonitorCycle) /\ WF_vars(MonitorWake)

\* ---- the poller with a failing send, disconnects and a stop request ------
FaultDpids == {1, 2}

FaultSwitchConnect ==
    /\ \E d \in FaultDpids :
          /\ connects[d] < MaxPollConnects
          /\ SwitchFeatures(d)
          /\ live' = live \cup {d}
    /\ UNCHANGED <<monitor_pc, poll, stats_requests, shutdown>>
    /\ UNCHANGED <<smVars, sevVars, mcVars, orVars>>

FaultSwitchReplies ==
    /\ \E d \in FaultDpids : SwitchReplies(d)
    /\ UNCHANGED <<smVars, sevVars, mcVars, orVars>>

MonitorRaisesStep ==
    /\ \E d \in FaultDpids : \E before \in SUBSET FaultDpids :
          MonitorCycleRaises(d, before)
    /\ UNCHANGED <<smVars, sevVars, mcVars, orVars>>

SwitchDisconnectsStep ==
    /\ \E d \in FaultDpids : SwitchDisconnects(d)
    /\ UNCHANGED <<smVars, sevVars, mcVars, orVars>>

PollFaultNext ==
    \/ FaultSwitchConnect \/ MonitorCycle \/ MonitorWake \/ FaultSwitchReplies
    \/ MonitorRaisesStep \/ SwitchDisconnectsStep \/ ShutdownSignal

SpecPollFault == FreshInit /\ [][PollFaultNext]_vars

\* ---- switch connects, some of them cut short by a send_msg that raises ---
ConnFaultNext ==
    \/ FaultSwitchConnect
    \/ /\ \E d \in FaultDpids : \E k \in 1..Len(ConnectInstalls) :
             /\ connects[d] < MaxPollConnects
             /\ SwitchFeaturesSendRaises(d, k)
             /\ live' = live \cup {d}
       /\ UNCHANGED <<monitor_pc, poll, stats_requests, shutdown>>
       /\ UNCHANGED <<smVars, sevVars, mcVars, orVars>>

SpecConnFault == FreshInit /\ [][ConnFaultNext]_vars

\* ---- the controller's events together: connects, packet-ins, the poller --
\* ---- and stats replies ----------------------------------------------------
\* (one switch, one packet-in and one stats reply, in any order)
CtlNext ==
    \/ FaultSwitchConnect /\ datapaths' = {1}
    \/ MonitorCycle
    \/ MonitorWake
    \/ ~IsSet(pkt_in) /\ PacketInEvent
    \/ ~IsSet(reply) /\ StatsReply

SpecCtl == FreshInit /\ [][CtlNext]_vars

\* ---- the monitoring collector: cycles of its collection loop -------------
CollectionCycleStep ==
    /\ \E status \in {200, 500, 0} : \E flows \in Bodies : \E t \in ClockValues :
          CollectionCycle(status, flows, t)
    /\ UNCHANGED collector
    /\ UNCHANGED <<smVars, sevVars, ctlVars, orVars>>

SpecCycle == FreshInit /\ [][CollectionCycleStep]_vars

\* ---- the monitoring collector: start, stop and its collection threads ----
\* (polls that fail, that find no flow, and that find one URLLC flow)
SpecLife ==
    FreshInit /\ [][\/ CollectorStart /\ UNCHANGED <<smVars, sevVars, ctlVars, orVars>>
                    \/ CollectorStop /\ UNCHANGED <<smVars, sevVars, ctlVars, orVars>>
                    \/ JoinReturns /\ UNCHANGED <<smVars, sevVars, ctlVars, orVars>>
                    \/ /\ \E k \in 1..MaxThreads : \E status \in {200, 0} :
                          \E flows \in {<<>>, <<Stat(5001, 125000, 100, 100)>>} :
                             LoopStep(k, status, flows, 500)
                       /\ UNCHANGED <<smVars, sevVars, ctlVars, orVars>>]_vars

(***************************************************************************)
(* Properties                                                              *)
(***************************************************************************)
LastOp == IF sm_ops = <<>> THEN "" ELSE sm_ops[Len(sm_ops)]

\* the manager's state before its latest operation
Before == sm_pre[Len(sm_pre)]

\* the latest operation was check_sla on a slice of the registry
EvaluatedKnown == LastOp = "check_sla" /\ sla_in.slice_name \in DOMAIN slices

\* the latest operation was check_sla on a name that is not in the registry
EvaluatedUnknown == LastOp = "check_sla" /\ sla_in.slice_name \notin DOMAIN slices

Sampled(dim) == MetricGet(sla_in.metrics, MetricKey(dim))

DimSet == {Dimensions[i] : i \in 1..Len(Dimensions)}

\* the returned violations of one dimension
Returned(dim) ==
    {i \in 1..Len(sla_out.violations) : sla_out.violations[i].violation_type = dim}

\* the sample of the latest call breaches the dimension: below the bandwidth floor,
\* above a latency, jitter or loss ceiling
SampleBreaches(dim) ==
    LET sla == slices[sla_in.slice_name].sla
    IN  \/ dim = "bandwidth"   /\ Sampled(dim) < sla.min_bandwidth_mbps
        \/ dim = "latency"     /\ Sampled(dim) > sla.max_latency_ms
        \/ dim = "jitter"      /\ Sampled(dim) > sla.max_jitter_ms
        \/ dim = "packet_loss" /\ Sampled(dim) > sla.max_packet_loss_pct

----------------------------------------------------------------------------
\* C1: after any sequence of stats replies (counters that decrease, the first
\* reply, time deltas that are zero or negative) the bandwidth_mbps the controller
\* records for every slice, and that of every FlowMetric of the collector, is >= 0.
C1_BandwidthNeverNegative ==
    /\ \A n \in SliceNames : metrics[n].bandwidth_mbps >= 0
    /\ \A i \in 1..Len(exported) : exported[i].bandwidth_mbps >= 0
    /\ \A i \in 1..Len(flow_metrics) : flow_metrics[i].bandwidth_mbps >= 0

\* a reply with a positive time delta whose URLLC counter is below the stored one
C1_Witness ==
    /\ IsSet(reply)
    /\ reply.time_delta > 0
    /\ reply.stats["URLLC"].bytes < PrevBytes(reply.prev_stats, "URLLC")
    /\ metrics["URLLC"].bandwidth_mbps = 0

----------------------------------------------------------------------------
\* C2: for a known slice, check_sla returns exactly one violation for each
\* dimension the sample breaches (of that slice, with the threshold as expected
\* and the sample as actual value) and none for the others, and the status is
\* 'violated' iff the violation list is non-empty, else 'compliant'.
C2_OneViolationPerBreach ==
    EvaluatedKnown =>
        /\ \A dim \in DimSet :
              Cardinality(Returned(dim)) = IF SampleBreaches(dim) THEN 1 ELSE 0
        /\ \A i \in 1..Len(sla_out.violations) :
              LET v == sla_out.violations[i]
              IN  /\ v.violation_type \in DimSet
                  /\ v.slice_name = sla_in.slice_name
                  /\ v.expected_value =
                        Threshold(slices[sla_in.slice_name].sla, v.violation_type)
                  /\ v.actual_value = Sampled(v.violation_type)
        /\ (sla_out.status = "violated") <=> (sla_out.violations # <<>>)
        /\ (sla_out.status = "compliant") <=> (sla_out.violations = <<>>)

\* a sample that breaches packet loss and jitter but neither bandwidth nor latency
C2_Witness ==
    /\ EvaluatedKnown
    /\ SampleBreaches("packet_loss") /\ SampleBreaches("jitter")
    /\ ~SampleBreaches("bandwidth") /\ ~SampleBreaches("latency")
    /\ Len(sla_out.violations) = 2
    /\ sla_out.status = "violated"

----------------------------------------------------------------------------
\* C3: bandwidth is breached exactly when actual < minimum; latency, jitter and
\* loss exactly when actual > maximum; a value equal to its threshold is compliant
\* in all four dimensions; details[dim].compliant is the negation of breached.
C3_BoundaryInclusive ==
    EvaluatedKnown =>
        \A dim \in DimSet :
            LET e == Threshold(slices[sla_in.slice_name].sla, dim)
                a == Sampled(dim)
                breached == Returned(dim) # {}
            IN  /\ breached <=> (IF dim = "bandwidth" THEN a < e ELSE a > e)
                /\ a = e => ~breached
                /\ sla_out.details[dim].compliant = ~breached
                /\ sla_out.details[dim].actual = a
                /\ sla_out.details[dim].required = e

\* a sample that sits on all four thresholds
C3_Witness ==
    /\ EvaluatedKnown
    /\ \A dim \in DimSet : Sampled(dim) = Threshold(slices[sla_in.slice_name].sla, dim)
    /\ sla_out.status = "compliant"
    /\ \A dim \in DimSet : sla_out.details[dim].compliant

----------------------------------------------------------------------------
\* the levels the reference classification allows for (expected, actual)
ReferenceLevels(expected, actual, requirement_type) ==
    {l \in {"minor", "major", "critical"} :
        IF expected = 0 THEN l = "critical"
        ELSE IF requirement_type = "min"
        THEN \/ l = "minor"    /\ 10 * actual >= 8 * expected
             \/ l = "major"    /\ 10 * actual >= 5 * expected /\ 10 * actual < 8 * expected
             \/ l = "critical" /\ 10 * actual < 5 * expected
        ELSE \/ l = "minor"    /\ 10 * actual <= 12 * expected
             \/ l = "major"    /\ 10 * actual > 12 * expected /\ actual <= 2 * expected
             \/ l = "critical" /\ actual > 2 * expected}

\* C4: the severity _get_severity returns is the reference classification:
\* critical when expected == 0; else by ratio = actual/expected, for 'min'
\* >= 0.8 minor, 0.5 <= ratio < 0.8 major, < 0.5 critical, for 'max' <= 1.2 minor,
\* 1.2 < ratio <= 2.0 major, > 2.0 critical; exactly one level for every input.
C4_SeverityIsReference ==
    sev_out # <<>> =>
        /\ ReferenceLevels(sev_in.expected, sev_in.actual, sev_in.requirement_type)
              = {sev_out[1]}
        /\ ReferenceLevels(sev_in.expected, sev_in.actual2, sev_in.requirement_type)
              = {sev_out[2]}

\* a ceiling of 10 with actual 12 (ratio 1.2, minor) and actual 20 (ratio 2.0, major)
C4_Witness ==
    /\ sev_out = <<"minor", "major">>
    /\ sev_in.requirement_type = "max"
    /\ sev_in.expected = 10 /\ sev_in.actual = 12 /\ sev_in.actual2 = 20

----------------------------------------------------------------------------
Rank(level) == CASE level = "minor" -> 1 [] level = "major" -> 2 [] level = "critical" -> 3

\* C5: for a maximum-bound dimension, a fixed expected value and two violating
\* actual values a1 <= a2, the severity for a2 is not lower than that for a1.
C5_SeverityMonotone ==
    (/\ sev_out # <<>>
     /\ sev_in.requirement_type = "max"
     /\ sev_in.actual > sev_in.expected
     /\ sev_in.actual <= sev_in.actual2)
        => Rank(sev_out[1]) <= Rank(sev_out[2])

\* two violating values of one ceiling with different severities
C5_Witness ==
    /\ sev_out = <<"major", "critical">>
    /\ sev_in.requirement_type = "max"
    /\ sev_in.expected > 0
    /\ sev_in.actual > sev_in.expected
    /\ sev_in.actual < sev_in.actual2

----------------------------------------------------------------------------
\* C6: check_sla with a name that is not in the registry returns status 'unknown'
\* (not 'compliant') with no violations, and leaves the ledger and every
\* per-slice counter as they were.
C6_UnknownSlice ==
    EvaluatedUnknown =>
        /\ sla_out.status = "unknown"
        /\ sla_out.status # "compliant"
        /\ sla_out.violations = <<>>
        /\ violations = Before.violations
        /\ violation_counts = Before.violation_counts

\* an unknown name evaluated while the ledger holds violations
C6_Witness ==
    /\ EvaluatedUnknown
    /\ violations # <<>>
    /\ \E n \in SliceNames : violation_counts[n] > 0

----------------------------------------------------------------------------
\* C7: a check_sla call on a known slice appends exactly the violations it returns
\* to the ledger and adds their number to that slice's counter; the counters of
\* the other slices are unchanged; a compliant evaluation changes neither.
C7_LedgerAndCounters ==
    EvaluatedKnown =>
        /\ violations = Before.violations \o sla_out.violations
        /\ violation_counts[sla_in.slice_name] =
              Before.violation_counts[sla_in.slice_name] + Len(sla_out.violations)
        /\ \A n \in DOMAIN violation_counts \ {sla_in.slice_name} :
              violation_counts[n] = Before.violation_counts[n]
        /\ DOMAIN violation_counts = DOMAIN Before.violation_counts
        /\ sla_out.status = "compliant" =>
              /\ violations = Before.violations
              /\ violation_counts = Before.violation_counts

\* three violations appended behind an earlier one of another slice
C7_Witness ==
    /\ EvaluatedKnown
    /\ Len(sla_out.violations) = 3
    /\ Before.violations # <<>>
    /\ Before.violations[1].slice_name # sla_in.slice_name
    /\ Len(violations) = Len(Before.violations) + 3

----------------------------------------------------------------------------
\* C8: clear_violations followed by get_violation_summary yields total 0, a
\* count of 0 for every slice, nothing by type and an all-zero severity
\* distribution; the clear leaves the slice definitions as they were.
C8_ClearThenSummary ==
    /\ sm_ops = <<"clear", "summary">> =>
          /\ summary.total_violations = 0
          /\ \A n \in SliceNames : summary.violations_by_slice[n] = 0
          /\ DOMAIN summary.violations_by_slice = SliceNames
          /\ DOMAIN summary.violations_by_type = {}
          /\ \A l \in {"minor", "major", "critical"} : summary.severity_distribution[l] = 0
    /\ LastOp = "clear" => slices = Before.slices /\ slices = DefaultSlices

\* the summary taken right after clearing a ledger that held violations
C8_Witness ==
    /\ sm_ops = <<"clear", "summary">>
    /\ sm_pre[1].violations # <<>>
    /\ \E n \in SliceNames : sm_pre[1].violation_counts[n] > 1
    /\ summary.total_violations = 0

----------------------------------------------------------------------------
\* C9: switch-connect handling is idempotent: a second switch-connect event of a
\* datapath pushes no classification-rule install for a rule the first event
\* already installed, so no classification rule is pushed to a switch twice.
C9_NoDuplicateClassificationInstall ==
    \A d \in Dpids : \A i \in 1..Len(SLICE_CONFIG) :
        Cardinality({k \in 1..Len(sent[d]) :
                        /\ sent[d][k].type = "flow_mod"
                        /\ DOMAIN sent[d][k].match = {"eth_type", "ip_proto", "udp_dst"}
                        /\ sent[d][k].match.udp_dst = SLICE_CONFIG[i].port}) <= 1

----------------------------------------------------------------------------
\* C10: for two consecutive replies of one switch with byte counts b0 <= b1 of a
\* slice, taken dt > 0 apart, the bandwidth reported for the second is
\* (b1 - b0) * 8 / (dt * 1,000,000) Mbps rounded to 3 decimals; 0 then 125,000
\* bytes over 1.0 s give 1.0 Mbps.
C10_RateOfConsecutiveSamples ==
    (IsSet(reply) /\ IsSet(reply.before)) =>
        \A n \in SliceNames :
            LET b0 == reply.before.stats[n].bytes
                b1 == reply.stats[n].bytes
                dt == reply.time - reply.before.time
            IN  (b0 <= b1 /\ dt > 0) =>
                    /\ metrics[n].bandwidth_mbps = Round3([num |-> (b1 - b0) * 8, den |-> dt])
                    /\ (b0 = 0 /\ b1 = 125000 /\ dt = 1000) => metrics[n].bandwidth_mbps = 1000

----------------------------------------------------------------------------
\* C11: for the first counter sample ever observed for a slice (nothing stored
\* yet) the reported bandwidth is 0 whatever its cumulative byte count is: the
\* controller's first stats reply reports 0 for every slice, and the collector's
\* first FlowMetric reports 0.
C11_FirstSampleReportsZero ==
    /\ (IsSet(reply) /\ ~IsSet(reply.prev_stats)) =>
          \A n \in SliceNames : metrics[n].bandwidth_mbps = 0
    /\ Len(flow_metrics) >= 1 => flow_metrics[1].bandwidth_mbps = 0

----------------------------------------------------------------------------
\* C12: the bandwidth computed from a reply of switch S uses the byte counts of
\* S's own previous reply and the time elapsed since S's own previous reply,
\* whatever replies of other switches arrived in between.
C12_PreviousSamplePerDatapath ==
    (IsSet(reply) /\ IsSet(reply.before)) =>
        /\ \A n \in SliceNames :
              PrevBytes(reply.prev_stats, n) = reply.before.stats[n].bytes
        /\ reply.time_delta = reply.time - reply.before.time

----------------------------------------------------------------------------
\* C13: get_slice_by_port returns the name of the slice whose port equals the
\* query and of no other slice, returns None when no slice has that port, and
\* leaves the registry (and the ledger and counters) as they were.
C13_LookupByPort ==
    LastOp = "lookup" =>
        /\ \A n \in DOMAIN slices : (lookup.result = n) <=> (slices[n].port = lookup.port)
        /\ (lookup.result = None) <=> ~(\E n \in DOMAIN slices : slices[n].port = lookup.port)
        /\ lookup.result \in DOMAIN slices \cup {None}
        /\ slices = Before.slices
        /\ violations = Before.violations
        /\ violation_counts = Before.violation_counts

\* port 5002 resolved to eMBB while the ledger holds violations, and a port of
\* no slice resolved to None
C13_Witness ==
    /\ sm_ops = <<"check_sla", "lookup">>
    /\ lookup.port = 5002 /\ lookup.result = "eMBB"
    /\ violations # <<>>

----------------------------------------------------------------------------
\* C14: evaluating URLLC (min bandwidth 5, max latency 5, max jitter 1, max loss
\* 0.001) with bandwidth 2.0, latency 10.0, jitter 2.0, loss 0.0 yields status
\* 'violated' with exactly 3 violations, of types bandwidth, latency and jitter,
\* none of type packet_loss, and the ledger grows by exactly 3.
C14_UrllcScenario ==
    (LastOp = "check_sla" /\ sla_in.slice_name = "URLLC" /\ sla_in.metrics = bad_metrics) =>
        /\ slices["URLLC"].sla = [min_bandwidth_mbps |-> 5000, max_latency_ms |-> 5000,
                                  max_jitter_ms |-> 1000, max_packet_loss_pct |-> 1]
        /\ sla_out.status = "violated"
        /\ Len(sla_out.violations) = 3
        /\ {sla_out.violations[i].violation_type : i \in 1..Len(sla_out.violations)}
              = {"bandwidth", "latency", "jitter"}
        /\ \A i \in 1..Len(sla_out.violations) :
              sla_out.violations[i].violation_type # "packet_loss"
        /\ Len(violations) = Len(Before.violations) + 3

\* the self-test's two calls on a fresh manager: a compliant sample, then this one
C14_Witness ==
    /\ sm_ops = <<"check_sla", "check_sla">>
    /\ sm_pre[1].violations = <<>> /\ sm_pre[2].violations = <<>>
    /\ sla_in.slice_name = "URLLC" /\ sla_in.metrics = bad_metrics
    /\ Len(violations) = 3

----------------------------------------------------------------------------
\* the violated samples of a slice's history
ViolatedIn(history) == {i \in 1..Len(history) : history[i].sla_status = "violated"}

\* what every summary entry satisfies besides its compliance rate: the sample
\* count and the violation count of the history, a rate between 0 and 100, and
\* for an empty history the single field samples = 0
SummaryCounts(n) ==
    LET e == metrics_summary[n]
    IN  /\ e.samples = Len(metrics_history[n])
        /\ e.samples = 0 => DOMAIN e = {"samples"}
        /\ e.samples > 0 =>
              /\ e.sla_violations = Cardinality(ViolatedIn(metrics_history[n]))
              /\ e.compliance_rate >= 0 /\ e.compliance_rate <= 1000

\* C15 as stated: for every slice with at least one sample the compliance rate
\* equals (samples - violations) / samples * 100 for the violation count of the
\* same summary and lies between 0 and 100; a slice without samples is reported
\* with samples = 0 and nothing is divided.
C15_ComplianceRateExact ==
    IsSet(metrics_summary) =>
        \A n \in DOMAIN metrics_summary :
            /\ SummaryCounts(n)
            /\ metrics_summary[n].samples > 0 =>
                  metrics_summary[n].compliance_rate * metrics_summary[n].samples
                     = (metrics_summary[n].samples - metrics_summary[n].sla_violations) * 1000

\* C15 (amended): the compliance rate is (samples - violations) / samples * 100
\* rounded to one decimal, so it is a whole number of tenths that differs from
\* the quotient by at most 0.05; the rest as stated.
C15_ComplianceRateRounded ==
    IsSet(metrics_summary) =>
        \A n \in DOMAIN metrics_summary :
            /\ SummaryCounts(n)
            /\ metrics_summary[n].samples > 0 =>
                  LET e == metrics_summary[n]
                      d == e.compliance_rate * e.samples - (e.samples - e.sla_violations) * 1000
                  IN  2 * d <= e.samples /\ 2 * d >= -e.samples

\* a summary with a slice of three samples, one of them violated (66.7), and a
\* slice without samples
C15_Witness ==
    /\ IsSet(metrics_summary)
    /\ \E n \in SliceNames :
          /\ metrics_summary[n].samples = 3
          /\ metrics_summary[n].sla_violations = 1
          /\ metrics_summary[n].compliance_rate = 667
    /\ \E n \in SliceNames : metrics_summary[n] = [samples |-> 0]

----------------------------------------------------------------------------
\* the messages the k-th switch-connect event of datapath d pushed
ConnectBatch(d, k) == SubSeq(sent[d], 7 * (k - 1) + 1, 7 * k)

\* the positions of a batch that hold the table-miss rule
TableMissIn(batch) ==
    {i \in 1..Len(batch) :
        /\ batch[i].type = "flow_mod"
        /\ batch[i].priority = 0
        /\ batch[i].match = <<>>
        /\ batch[i].actions = <<[type |-> "output", port |-> -3]>>}

MetersIn(batch, c) ==
    {i \in 1..Len(batch) : batch[i].type = "meter_mod" /\ batch[i].meter_id = c.meter_id}

ClassificationIn(batch, c) ==
    {i \in 1..Len(batch) :
        /\ batch[i].type = "flow_mod"
        /\ DOMAIN batch[i].match = {"eth_type", "ip_proto", "udp_dst"}
        /\ batch[i].match.udp_dst = c.port}

----------------------------------------------------------------------------
\* the latest packet-in was dropped: an LLDP frame (ethertype 0x88cc) or data
\* without an Ethernet header
PktDropped ==
    IsSet(pkt_in) /\ (~pkt_in.frame.parsed \/ pkt_in.frame.ethertype = 35020)

\* the latest packet-in was processed
PktForwarded ==
    IsSet(pkt_in) /\ pkt_in.frame.parsed /\ pkt_in.frame.ethertype # 35020

\* the port an address table records for an address of a switch, 0 for none
Entry(tables, d, mac) ==
    IF d \in DOMAIN tables /\ mac \in DOMAIN tables[d] THEN tables[d][mac] ELSE 0

AllMacs == HostMacs \cup {BroadcastMac, "01:80:c2:00:00:0e", ""}

\* the rule installs and the packet-outs among the messages of the latest packet-in
RulesOut == {i \in 1..Len(pkt_out) : pkt_out[i].type = "flow_mod"}
PacketsOut == {i \in 1..Len(pkt_out) : pkt_out[i].type = "packet_out"}

\* the port of the output action of a message
OutputOf(msg) == msg.actions[Len(msg.actions)].port

\* C17: a packet-in whose frame is LLDP (ethertype 0x88cc) or has no parseable
\* Ethernet header has no effect: the address tables are as before, no rule is
\* installed and no packet-out is emitted.
C17_ControlFramesDropped ==
    PktDropped =>
        /\ mac_to_port = pkt_in.before
        /\ \A d \in Dpids : \A m \in AllMacs :
              Entry(mac_to_port, d, m) = Entry(pkt_in.before, d, m)
        /\ RulesOut = {}
        /\ PacketsOut = {}
        /\ pkt_out = <<>>

\* an LLDP frame arriving on a port other than the one its source was learned on
C17_Witness ==
    /\ PktDropped
    /\ pkt_in.frame.ethertype = 35020
    /\ Entry(mac_to_port, pkt_in.dpid, pkt_in.frame.src) # 0
    /\ Entry(mac_to_port, pkt_in.dpid, pkt_in.frame.src) # pkt_in.in_port

----------------------------------------------------------------------------
\* C18: address learning overwrites, last seen wins.  The tables start empty,
\* and every processed packet-in sets the entry of its source address on its
\* switch to its ingress port and leaves every other entry of every switch as it
\* was (present with the same port, or absent); with C17 each table therefore
\* maps every source seen to the port of its latest packet-in and nothing else.
C18_LastSeenWins ==
    /\ ~IsSet(pkt_in) => \A d \in Dpids : \A m \in AllMacs : Entry(mac_to_port, d, m) = 0
    /\ PktForwarded =>
          \A d \in Dpids : \A m \in AllMacs :
              Entry(mac_to_port, d, m) =
                  IF d = pkt_in.dpid /\ m = pkt_in.frame.src
                  THEN pkt_in.in_port
                  ELSE Entry(pkt_in.before, d, m)

\* a source seen again on another port of the same switch
C18_Witness ==
    /\ PktForwarded
    /\ Entry(pkt_in.before, pkt_in.dpid, pkt_in.frame.src) # 0
    /\ Entry(pkt_in.before, pkt_in.dpid, pkt_in.frame.src) # pkt_in.in_port
    /\ Entry(mac_to_port, pkt_in.dpid, pkt_in.frame.src) = pkt_in.in_port

----------------------------------------------------------------------------
\* C19: the packet-out of a processed packet-in outputs to the port recorded for
\* the destination in the table of the same switch, as it stands after the
\* source has been learned, and floods when there is none; tables of other
\* switches are neither used nor changed.
C19_OutputFromOwnTable ==
    PktForwarded =>
        /\ PacketsOut # {}
        /\ \A i \in PacketsOut :
              OutputOf(pkt_out[i]) =
                  IF Entry(mac_to_port, pkt_in.dpid, pkt_in.frame.dst) # 0
                  THEN Entry(mac_to_port, pkt_in.dpid, pkt_in.frame.dst)
                  ELSE OFPP_FLOOD
        /\ \A d \in Dpids \ {pkt_in.dpid} : \A m \in AllMacs :
              Entry(mac_to_port, d, m) = Entry(pkt_in.before, d, m)

\* a destination known on the other switch only: the frame is flooded
C19_Witness ==
    /\ PktForwarded
    /\ \E d \in Dpids \ {pkt_in.dpid} : Entry(mac_to_port, d, pkt_in.frame.dst) # 0
    /\ Entry(mac_to_port, pkt_in.dpid, pkt_in.frame.dst) = 0
    /\ \A i \in PacketsOut : OutputOf(pkt_out[i]) = OFPP_FLOOD

----------------------------------------------------------------------------
\* the port the latest packet-in resolved to
Resolved == OutputOf(pkt_out[CHOOSE i \in PacketsOut : TRUE])

\* C20: when a processed packet-in resolves to a known port and the frame is
\* IPv4/UDP to a slice's port, exactly one rule is installed: it matches the
\* ingress port, the destination address and that UDP port, has the slice's
\* priority and idle timeout 60, and its actions are set-DSCP to the slice's
\* marking, then output to the resolved port.  When the packet-in resolves to
\* flood, no rule is installed.
C20_SliceRuleOnKnownPort ==
    PktForwarded =>
        /\ (/\ Resolved # OFPP_FLOOD
            /\ pkt_in.frame.ipv4 /\ pkt_in.frame.udp
            /\ pkt_in.frame.dst_port \in SlicePorts) =>
              /\ Cardinality(RulesOut) = 1
              /\ \A i \in RulesOut :
                    LET c == ConfigOfPort(pkt_in.frame.dst_port)
                    IN  /\ pkt_out[i].match.in_port = pkt_in.in_port
                        /\ pkt_out[i].match.eth_dst = pkt_in.frame.dst
                        /\ pkt_out[i].match.udp_dst = pkt_in.frame.dst_port
                        /\ pkt_out[i].priority = c.priority
                        /\ pkt_out[i].idle_timeout = 60
                        /\ pkt_out[i].actions =
                              <<[type |-> "set_dscp", value |-> c.dscp],
                                [type |-> "output", port |-> Resolved]>>
        /\ Resolved = OFPP_FLOOD => RulesOut = {}

\* an mMTC frame (UDP port 5003) to a learned destination: one rule at priority
\* 10 that marks DSCP 10
C20_Witness ==
    /\ PktForwarded
    /\ pkt_in.frame.ipv4 /\ pkt_in.frame.udp /\ pkt_in.frame.dst_port = 5003
    /\ pkt_in.frame.dst # pkt_in.frame.src
    /\ Resolved # OFPP_FLOOD
    /\ \E i \in RulesOut :
          /\ pkt_out[i].priority = 10
          /\ pkt_out[i].actions[1] = [type |-> "set_dscp", value |-> 10]

----------------------------------------------------------------------------
\* C21: when a processed packet-in resolves to a known port and the frame
\* matches no slice (it is not IPv4, or not UDP, or UDP to a port that is no
\* slice's), exactly one rule is installed: it matches the ingress port and the
\* destination address only, has priority 1 and idle timeout 60.
C21_PlainRuleOnKnownPort ==
    (PktForwarded /\ Resolved # OFPP_FLOOD /\ ~IsSliceTraffic(pkt_in.frame)) =>
        /\ Cardinality(RulesOut) = 1
        /\ \A i \in RulesOut :
              /\ pkt_out[i].match = [in_port |-> pkt_in.in_port,
                                     eth_dst |-> pkt_in.frame.dst]
              /\ pkt_out[i].priority = 1
              /\ pkt_out[i].idle_timeout = 60

----------------------------------------------------------------------------
----------------------------------------------------------------------------
\* C23: a failure of the rule install during a packet-in does not block the
\* forward and does not leave the handler: every processed packet-in, also one
\* whose flow_mod could not be sent, ends with its packet-out emitted and
\* without an exception raised out of the handler.
C23_InstallFailureContained ==
    PktForwarded =>
        /\ ~pkt_in.raised
        /\ Cardinality(PacketsOut) = 1

----------------------------------------------------------------------------
\* a cycle of the poller has just ended
CycleDone == monitor_pc # "request" /\ IsSet(poll)

----------------------------------------------------------------------------
\* C25: no switch ever has more than one statistics request outstanding (a
\* switch that has not answered is skipped by the next cycle).
C25_AtMostOneOutstanding ==
    \A d \in Dpids : stats_requests[d] <= 1

----------------------------------------------------------------------------
\* C26: once the controller has been told to stop, no step issues a statistics
\* request and no step pushes a rule or a meter to a switch.
C26_QuietAfterShutdown ==
    [][shutdown =>
          /\ \A d \in Dpids : sent'[d] = sent[d]
          /\ ~(monitor_pc = "request" /\ monitor_pc' # "request"
               /\ \E d \in Dpids : poll'.requested[d] > 0)]_vars

----------------------------------------------------------------------------
\* C27: a failure of the request to one switch leaves the poller running, and
\* every other registered switch still gets its request in that cycle.
C27_PollFailureIsolated ==
    /\ monitor_pc # "dead"
    /\ (CycleDone /\ poll.failed # 0) =>
          \A d \in poll.datapaths \ {poll.failed} : poll.requested[d] = 1

----------------------------------------------------------------------------
\* C28: a switch whose connection is down is no registered datapath and has no
\* address-table entry, and no cycle of the poller sends a request to a switch
\* that is not connected when the cycle runs.
C28_PurgedOnDisconnect ==
    /\ \A d \in Dpids \ live :
          /\ d \notin datapaths
          /\ \A m \in AllMacs : Entry(mac_to_port, d, m) = 0
    /\ CycleDone => \A d \in Dpids \ poll.live : poll.requested[d] = 0

----------------------------------------------------------------------------
\* a retention count: a number of samples below the lengths explored
RetentionCount == MaxHistory - 1

\* C29: the history of every slice is bounded by a fixed retention count: it
\* never holds more samples than that, however many samples were aggregated.
C29_HistoryBounded ==
    \A n \in SliceNames : Len(metrics_history[n]) <= RetentionCount

----------------------------------------------------------------------------
\* the number of lines of a file (or entries of a list) equal to a record
CountIn(list, r) == Cardinality({i \in 1..Len(list) : list[i] = r})

\* C30: the export file holds every collected sample exactly once and nothing
\* else, after any number of cycles, and a cycle only appends to the file: the
\* lines written before stay as they were.
C30_EachSampleExportedOnce ==
    /\ [](/\ Len(flow_file) = Len(flow_metrics)
          /\ \A i \in 1..Len(flow_metrics) :
                CountIn(flow_file, ToDict(flow_metrics[i])) =
                    CountIn(flow_metrics, flow_metrics[i]))
    /\ [][/\ Len(flow_file') >= Len(flow_file)
          /\ SubSeq(flow_file', 1, Len(flow_file)) = flow_file]_vars

----------------------------------------------------------------------------
\* the samples and the violated samples the metrics summary reports for a slice
ReportedSamples(n) == metrics_summary[n].samples
ReportedViolated(n) ==
    IF metrics_summary[n].samples = 0 THEN 0 ELSE metrics_summary[n].sla_violations

\* C31: the results of a run of start_experiment report, for every slice, the
\* samples and the violated samples of that run only, and never more violated
\* samples than the ledger summary counts violations for the slice.
C31_RunIsolated ==
    experiment.results =>
        \A n \in SliceNames :
            /\ ReportedSamples(n) = experiment.run[n].samples
            /\ ReportedViolated(n) = experiment.run[n].violated
            /\ ReportedViolated(n) <= summary.violations_by_slice[n]

----------------------------------------------------------------------------
\* C32: under any interleaving of concurrent check_sla calls with each other
\* and with clear_violations no update is lost: once every call has
\* completed, the ledger length equals the sum of the per-slice counters, and
\* every violation still in the ledger (it was appended after the clear
\* emptied it) is counted in its slice's counter.
InLedger(n) == Cardinality({i \in 1..Len(violations) : violations[i].slice_name = n})

C32_NoLostUpdate ==
    (\A t \in DOMAIN threads : threads[t].pc = "done") =>
        /\ Len(violations) = violation_counts["URLLC"] + violation_counts["eMBB"]
                                + violation_counts["mMTC"]
        /\ \A n \in SliceNames : violation_counts[n] >= InLedger(n)

----------------------------------------------------------------------------
----------------------------------------------------------------------------
\* C34: only the stats-reply handler changes the previous-sample state: a
\* switch connect, a packet-in and a pass of the poller leave prev_stats,
\* prev_time and the per-slice metrics as they were; after a stats reply the
\* stored previous byte count of every slice is the byte count aggregated from
\* that reply, and the reply leaves every address table as it was.
C34_OnlyRepliesTouchSamples ==
    [][/\ (FaultSwitchConnect \/ PacketInEvent \/ MonitorCycle \/ MonitorWake) =>
              UNCHANGED <<prev_stats, prev_time, metrics>>
       /\ reply' # reply =>
              /\ \A n \in SliceNames : prev_stats'[n].bytes = reply'.stats[n].bytes
              /\ prev_time' = reply'.time
              /\ mac_to_port' = mac_to_port]_vars

\* a reply with traffic has been handled, and after it a packet-in that learnt
\* an address and a pass of the poller, on a switch that connected twice
C34_Witness ==
    /\ IsSet(reply)
    /\ prev_stats["URLLC"].bytes > 0
    /\ metrics["URLLC"].bandwidth_mbps > 0
    /\ IsSet(pkt_in) /\ IsSet(pkt_in.before) = FALSE /\ IsSet(mac_to_port)
    /\ IsSet(poll)
    /\ \E d \in FaultDpids : connects[d] = 2

----------------------------------------------------------------------------
\* the latest table-miss rule pushed to datapath d at or before position i, 0 if none
LatestTableMiss(d, i) ==
    LET before == {j \in TableMissIn(sent[d]) : j <= i}
    IN  IF before = {} THEN 0 ELSE CHOOSE j \in before : \A k \in before : k <= j

\* C35: a switch-connect event pushes the table-miss rule, then all meters, then
\* all slice classification rules; no classification rule that binds a meter is
\* pushed to a switch before the meter with that id was pushed to it; and the
\* switch is registered for polling before any of these installs.
C35_InstallOrder ==
    \A d \in Dpids :
        /\ connects[d] > 0 => d \in datapaths
        /\ \A i \in 1..Len(sent[d]) :
              LET msg == sent[d][i]
                  tm  == LatestTableMiss(d, i)
              IN  /\ tm > 0
                  /\ msg.type = "meter_mod" =>
                        /\ i \in (tm + 1)..(tm + Len(InstallMeters))
                        /\ \A j \in (tm + 1)..(i - 1) : sent[d][j].type = "meter_mod"
                  /\ (msg.type = "flow_mod" /\ msg.meter # 0) =>
                        /\ \E j \in 1..(i - 1) :
                              /\ sent[d][j].type = "meter_mod"
                              /\ sent[d][j].meter_id = msg.meter
                        /\ \A c \in 1..Len(SLICE_CONFIG) :
                              \E j \in (tm + 1)..(i - 1) :
                                  sent[d][j] = MeterMod(SLICE_CONFIG[c])
                        /\ \A j \in (tm + 1)..(i - 1) :
                              sent[d][j].type = "flow_mod" => sent[d][j].meter # 0

\* one switch whose first connect was cut short before its first install and is
\* registered all the same, another with a whole connect followed by one cut
\* short after the second classification rule
C35_Witness ==
    /\ connects[1] = 1 /\ sent[1] = <<>> /\ 1 \in datapaths
    /\ connects[2] = 2 /\ Len(sent[2]) = 7 + 6
    /\ sent[2][13].type = "flow_mod" /\ sent[2][13].meter # 0

----------------------------------------------------------------------------
\* C36: the two SLA evaluators agree: for URLLC, eMBB and mMTC and every sample
\* that gives all four metrics, MetricsCollector._check_sla returns "violated"
\* exactly when SliceManager.check_sla returns status VIOLATED and "compliant"
\* exactly when it returns COMPLIANT, and both return "unknown" for any other
\* slice name.
C36_EvaluatorsAgree ==
    (IsSet(mc_sla) /\ IsSet(sla_out)) =>
        /\ mc_sla.status = sla_out.status
        /\ mc_sla.slice_name \in SliceNames => mc_sla.status \in {"violated", "compliant"}
        /\ mc_sla.slice_name \notin SliceNames => mc_sla.status = "unknown"

\* both evaluators have judged a URLLC sample whose jitter alone is above its
\* threshold, by one thousandth, and whose other values are at their thresholds
C36_Witness ==
    /\ IsSet(mc_sla) /\ IsSet(sla_out)
    /\ mc_sla.slice_name = "URLLC"
    /\ mc_sla.metrics = [bandwidth_mbps |-> 5000, latency_ms |-> 5000,
                         jitter_ms |-> 1001, packet_loss_pct |-> 1]
    /\ mc_sla.status = "violated"
    /\ Len(sla_out.violations) = 1

----------------------------------------------------------------------------
\* the sum of the values of a dictionary of numbers
RECURSIVE SumValues(_)
SumValues(f) ==
    IF DOMAIN f = {} THEN 0
    ELSE LET k == CHOOSE x \in DOMAIN f : TRUE
         IN  f[k] + SumValues([x \in DOMAIN f \ {k} |-> f[x]])

\* C37: after any sequence of check_sla and clear_violations calls the summary
\* is consistent: total_violations equals the sum of violations_by_slice, the
\* sum of violations_by_type and the sum of the severity distribution, and the
\* slices that have a counter are exactly the registered slices.
C37_SummaryConsistent ==
    /\ DOMAIN violation_counts = DOMAIN slices
    /\ IsSet(summary) =>
          /\ summary.total_violations = SumValues(summary.violations_by_slice)
          /\ summary.total_violations = SumValues(summary.violations_by_type)
          /\ summary.total_violations = SumValues(summary.severity_distribution)
          /\ DOMAIN summary.violations_by_slice = DOMAIN slices

\* the summary of a ledger of four violations of two slices and several types,
\* taken right after a check_sla that added to it
C37_Witness ==
    /\ sm_ops = <<"check_sla", "summary">>
    /\ summary.total_violations = 4
    /\ Cardinality(DOMAIN summary.violations_by_type) >= 2
    /\ Cardinality({n \in SliceNames : summary.violations_by_slice[n] > 0}) = 2
    /\ sm_pre[1].violations # <<>>
    /\ summary.severity_distribution["major"] > 0

----------------------------------------------------------------------------
\* C38: in the collector the byte delta and the time delta of a slice's
\* bandwidth cover the same interval: the previous byte count used for a slice
\* was stored at the collection whose time is used as the previous time, also
\* after cycles in which the slice had no flow in the response and in
\* responses with several flows of one slice port.
C38_SameInterval ==
    IsSet(mc_poll) =>
        \A i \in 1..Len(mc_poll.used) :
            mc_poll.used[i].had_prev => mc_poll.used[i].prev_at = mc_poll.prev_time

----------------------------------------------------------------------------
\* C39: the collector's start/stop lifecycle: at most one collection loop is
\* active at any time (a start while running starts no second thread); after
\* stop the loop begins no further cycle once its current cycle has ended; and
\* a loop ends only because of a stop, never because a collection or an export
\* failed.
C39_Lifecycle ==
    /\ Cardinality({k \in DOMAIN collector.threads : collector.threads[k].pc # "ended"}) <= 1
    /\ \A k \in DOMAIN collector.threads :
          /\ ~collector.threads[k].late
          /\ collector.threads[k].pc = "ended" => collector.threads[k].stopped

====
